---- MODULE Spec2Model ----
(***************************************************************************)
(* A model of the inlieuoffun/tools episode-update pipeline:                *)
(*   - ilof.AddOrUpdateGuests and its helpers (ilof/guest.go),              *)
(*   - ilof.LoadEpisode / ilof.WriteEpisode (ilof/ilof.go),                 *)
(*   - createEpisodeFile, checkForUpdate and main of cmd epdate.            *)
(* Files are modelled by their content: the guest file as a sequence of    *)
(* lines (comment lines, blank lines, serialized records), an episode file *)
(* as its YAML front matter plus its detail text.                          *)
(***************************************************************************)
EXTENDS Integers, Sequences, FiniteSets, TLC

VARIABLES
  guestFile,   \* content of _data/guests.yaml (a sequence of lines), or NoFile
  gcall,       \* the last AddOrUpdateGuests call: inputs and what it did
  epFile,      \* content of one episode file (front matter and detail)
  ecall,       \* the last createEpisodeFile call on epFile: inputs and error
  kind,        \* which writing function the instances run on the path
  target,      \* content at the path an atomic file replaces
  wr,          \* per writing instance: position, temporary file, outcome
  seen,        \* what a reader of the path has read last
  flags,       \* the command-line flags of epdate
  pc,          \* where main is: polling, updates, sleeping, done, failed
  exitStatus,  \* exit status of the process, -1 while it runs
  didUpdate,   \* what the last checkForUpdate returned
  passes,      \* number of calls of checkForUpdate so far
  latest,      \* checkForUpdate: the latest episode known to the site
  updates,     \* checkForUpdate: the updates found
  idx,         \* checkForUpdate: position in updates (the loop's i)
  numValid,    \* checkForUpdate: updates processed in this pass
  editPaths,   \* checkForUpdate: paths to edit
  guestsDirty, \* checkForUpdate: whether a processed update had guests
  epDir,       \* the episode directory: path -> content of the episode file
  written,     \* paths of the episode files written in this pass
  upstream,    \* the last failure of a request to the site, the search or YouTube
  tu,          \* a call of TwitterUpdates: inputs, position, result
  sim,         \* a call of Similarity: inputs and result
  cap,         \* a call of YouTubeCaptionURL: the watch page and the result
  sched        \* main after a pass: now, the start it targets, the sleep

guestVars == <<guestFile, gcall>>
episodeVars == <<epFile, ecall>>
writeVars == <<kind, target, wr, seen>>
pipelineVars ==
  <<flags, pc, exitStatus, didUpdate, passes, latest, updates, idx, numValid,
    editPaths, guestsDirty, epDir, written, upstream>>
functionVars == <<tu, sim, cap, sched>>
vars == <<guestVars, episodeVars, writeVars, pipelineVars, functionVars>>

(***************************************************************************)
(* Bounds of the model.                                                    *)
(***************************************************************************)
MaxEpisode == 1    \* episode numbers passed to AddOrUpdateGuests: 1..MaxEpisode
MaxBatch == 2      \* longest guest batch of one call
MaxNum == 2        \* episode numbers passed to createEpisodeFile: 1..MaxNum

NoFile == "<no file>"
NoGuest == 0       \* findGuest's nil result (records are found by index 1..)

(***************************************************************************)
(* Guest records (type Guest, guest.go:17-23).                             *)
(***************************************************************************)
Names == {"", "ann", "bob"}
Handles == {"", "h1", "h2"}
Profiled == {<<"ann", "h1">>, <<"bob", "h1">>}

Guest(n, t, u, s, eps) ==
  [Name |-> n, Twitter |-> t, URL |-> u, Notes |-> s, Episodes |-> eps]

\* The candidates a caller passes in: two profiled ones sharing a handle under
\* different names, two bare handles, and one bare name.
Candidates ==
  { Guest(p[1], p[2], "u1", "p1", <<>>) : p \in Profiled }
    \cup { Guest("", t, "", "", <<>>) : t \in Handles \ {""} }
    \cup { Guest("bob", "", "", "", <<>>) }


RECURSIVE SeqsUpTo(_, _)
SeqsUpTo(S, n) ==
  IF n = 0 THEN {<<>>}
  ELSE LET shorter == SeqsUpTo(S, n - 1)
       IN  shorter \cup { Append(s, x) : s \in {q \in shorter : Len(q) = n - 1}, x \in S }

Range(s) == { s[i] : i \in 1..Len(s) }

Batches == SeqsUpTo(Candidates, MaxBatch)

\* A variant of OnEpisode that looks at the last listed episode only.
OnEpisodeLastOnly(g, ep) ==
  g.Episodes # <<>> /\ g.Episodes[Len(g.Episodes)] = ep

(***************************************************************************)
(* Guest.OnEpisode (guest.go:41-48).                                       *)
(***************************************************************************)
OnEpisode(g, ep) == \E i \in 1..Len(g.Episodes) : g.Episodes[i] = ep

(***************************************************************************)
(* isSameGuest and findGuest (guest.go:119-130).  findGuest returns the    *)
(* first record of gs that isSameGuest accepts, here by its index.         *)
(***************************************************************************)
\* A variant of isSameGuest that matches by name alone.
isSameGuestByName(g1, g2) == g1.Name = g2.Name

isSameGuest(g1, g2) ==
  g1.Name = g2.Name \/ (g1.Twitter # "" /\ g1.Twitter = g2.Twitter)

findGuest(needle, gs) ==
  IF \E i \in 1..Len(gs) : isSameGuest(gs[i], needle)
  THEN CHOOSE i \in 1..Len(gs) :
         /\ isSameGuest(gs[i], needle)
         /\ \A j \in 1..(i - 1) : ~isSameGuest(gs[j], needle)
  ELSE NoGuest

(***************************************************************************)
(* sort.Float64s (guest.go:88): ascending insertion of the appended number.*)
(***************************************************************************)
RECURSIVE Insert(_, _)
Insert(s, x) ==
  IF s = <<>> THEN <<x>>
  ELSE IF x < Head(s) THEN <<x>> \o s
  ELSE <<Head(s)>> \o Insert(Tail(s), x)

\* A variant of the sort that leaves the list as it was appended to.
AsAppended(s) == s

RECURSIVE SortFloat64s(_)
SortFloat64s(s) ==
  IF s = <<>> THEN <<>> ELSE Insert(SortFloat64s(Tail(s)), Head(s))

(***************************************************************************)
(* The lines of the guest file.  A record line stands for the YAML block   *)
(* of one record ("- name: ..."), which starts with a character other than *)
(* '#'.  A junk line is text the YAML decoder rejects.                     *)
(***************************************************************************)
CommentLine(c) == [kind |-> "comment", text |-> c, kv |-> <<>>]
BlankLine == [kind |-> "blank", text |-> "", kv |-> <<>>]
JunkLine == [kind |-> "junk", text |-> "", kv |-> <<>>]
RecLine(kv) == [kind |-> "rec", text |-> "", kv |-> kv]

(***************************************************************************)
(* yaml.Marshal of one Guest under the struct tags of guest.go:18-22:      *)
(* name and episodes are always written, twitter, url and notes only when  *)
(* non-empty (omitempty).  yaml.Unmarshal gives an absent key its zero     *)
(* value.                                                                  *)
(***************************************************************************)
yamlMarshalGuest(g) ==
  LET keys == {"name", "episodes"}
                \cup (IF g.Twitter # "" THEN {"twitter"} ELSE {})
                \cup (IF g.URL # "" THEN {"url"} ELSE {})
                \cup (IF g.Notes # "" THEN {"notes"} ELSE {})
  IN  [k \in keys |->
         CASE k = "name" -> g.Name
           [] k = "twitter" -> g.Twitter
           [] k = "url" -> g.URL
           [] k = "notes" -> g.Notes
           [] k = "episodes" -> g.Episodes]

yamlField(kv, k, zero) == IF k \in DOMAIN kv THEN kv[k] ELSE zero

yamlUnmarshalGuest(kv) ==
  Guest(yamlField(kv, "name", ""), yamlField(kv, "twitter", ""),
        yamlField(kv, "url", ""), yamlField(kv, "notes", ""),
        yamlField(kv, "episodes", <<>>))

\* yaml.Unmarshal(content, &entries) (guest.go:74-77): comment lines and blank
\* lines are skipped, every record block gives one entry.
RECURSIVE yamlUnmarshalEntries(_)
yamlUnmarshalEntries(content) ==
  IF content = <<>> THEN <<>>
  ELSE IF Head(content).kind = "rec"
       THEN <<yamlUnmarshalGuest(Head(content).kv)>> \o yamlUnmarshalEntries(Tail(content))
       ELSE yamlUnmarshalEntries(Tail(content))

yamlValid(content) == \A i \in 1..Len(content) : content[i].kind # "junk"

(***************************************************************************)
(* firstNonComment = regexp (?m)^[^#] (guest.go:50) and FindIndex          *)
(* (guest.go:69): the start of the first line whose first character is not *)
(* '#'.  A blank line matches (its first character is the newline); the    *)
(* position after the last line does not (there is no character), so a     *)
(* file of comment lines only has no match: 0 stands for nil.              *)
(***************************************************************************)
firstNonComment(data) ==
  IF \E i \in 1..Len(data) : data[i].kind # "comment"
  THEN CHOOSE i \in 1..Len(data) :
         /\ data[i].kind # "comment"
         /\ \A j \in 1..(i - 1) : data[j].kind = "comment"
  ELSE 0

\* guest.go:68-72
SplitComments(data) ==
  LET m == firstNonComment(data)
  IN  IF m # 0
      THEN [comments |-> SubSeq(data, 1, m - 1), content |-> SubSeq(data, m, Len(data))]
      ELSE [comments |-> <<>>, content |-> data]

(***************************************************************************)
(* The merge loop of AddOrUpdateGuests (guest.go:79-91).  st.targets       *)
(* records, for each guest of the batch, the index of the entry it was     *)
(* recorded in.                                                            *)
(***************************************************************************)
\* A variant of MergeOne that refreshes a found record from the candidate.
MergeOneRefreshing(episode, g, st) ==
  LET old == findGuest(g, st.entries)
  IN  IF old = NoGuest
      THEN [entries |-> Append(st.entries, [g EXCEPT !.Episodes = <<episode>>]),
            dirty |-> TRUE,
            targets |-> Append(st.targets, Len(st.entries) + 1)]
      ELSE IF ~OnEpisode(st.entries[old], episode)
      THEN [entries |-> [st.entries EXCEPT ![old] =
                            [g EXCEPT !.Episodes =
                                SortFloat64s(Append(st.entries[old].Episodes, episode))]],
            dirty |-> TRUE,
            targets |-> Append(st.targets, old)]
      ELSE [st EXCEPT !.targets = Append(@, old)]

MergeOne(episode, g, st) ==
  LET old == findGuest(g, st.entries)
  IN  IF old = NoGuest
      THEN [entries |-> Append(st.entries, [g EXCEPT !.Episodes = <<episode>>]),
            dirty |-> TRUE,
            targets |-> Append(st.targets, Len(st.entries) + 1)]
      ELSE IF ~OnEpisode(st.entries[old], episode)
      THEN [entries |-> [st.entries EXCEPT ![old].Episodes =
                            SortFloat64s(Append(@, episode))],
            dirty |-> TRUE,
            targets |-> Append(st.targets, old)]
      ELSE [st EXCEPT !.targets = Append(@, old)]

RECURSIVE MergeLoop(_, _, _)
MergeLoop(episode, guests, st) ==
  IF guests = <<>> THEN st
  ELSE MergeLoop(episode, Tail(guests), MergeOne(episode, Head(guests), st))

\* The bytes handed to the atomic file (guest.go:102-115): the comment block,
\* then each record marshalled on its own, an empty line between two records.
RECURSIVE WriteEntries(_, _)
WriteEntries(entries, i) ==
  IF i > Len(entries) THEN <<>>
  ELSE (IF i > 1 THEN <<BlankLine>> ELSE <<>>)
         \o <<RecLine(yamlMarshalGuest(entries[i]))>>
         \o WriteEntries(entries, i + 1)

GuestOutput(comments, entries) == comments \o WriteEntries(entries, 1)

(***************************************************************************)
(* AddOrUpdateGuests (guest.go:56-117).  io is the outcome of the file     *)
(* operations: "ok", or "new" when the atomic file cannot be created or    *)
(* committed (atomicfile.New or File.Close returns an error).  The result  *)
(* gives the error (if any), whether the file was rewritten and its        *)
(* content after.                                                          *)
(***************************************************************************)
GuestIO == {"ok", "new"}

AddOrUpdateGuests(episode, file, guests, io) ==
  LET unchanged(err) ==
        [err |-> err, rewrote |-> FALSE, file |-> file, targets |-> <<>>,
         entries |-> <<>>]
  IN  IF Len(guests) = 0 THEN unchanged("nil")
      ELSE IF file = NoFile THEN unchanged("read")
      ELSE LET cut == SplitComments(file)
           IN  IF ~yamlValid(cut.content) THEN unchanged("yaml")
               ELSE LET st == MergeLoop(episode, guests,
                                [entries |-> yamlUnmarshalEntries(cut.content),
                                 dirty |-> FALSE, targets |-> <<>>])
                    IN  IF ~st.dirty
                        THEN [unchanged("nil") EXCEPT !.targets = st.targets,
                                                      !.entries = st.entries]
                        ELSE IF io # "ok"
                        THEN [unchanged(io) EXCEPT !.targets = st.targets,
                                                   !.entries = st.entries]
                        ELSE [err |-> "nil", rewrote |-> TRUE,
                              file |-> GuestOutput(cut.comments, st.entries),
                              targets |-> st.targets, entries |-> st.entries]

Entries(file) ==
  IF file = NoFile THEN <<>> ELSE yamlUnmarshalEntries(SplitComments(file).content)

(***************************************************************************)
(* Strings, character by character.                                        *)
(***************************************************************************)
Char(s, k) == SubSeq(s, k, k)

\* strings.Index: the position of the first sub in s, 0 when there is none.
Index(s, sub) ==
  LET at == { k \in 1..(Len(s) - Len(sub) + 1) : SubSeq(s, k, k + Len(sub) - 1) = sub }
  IN  IF at = {} THEN 0 ELSE CHOOSE k \in at : \A j \in at : k <= j

HasPrefix(s, pre) == Len(s) >= Len(pre) /\ SubSeq(s, 1, Len(pre)) = pre

TrimPrefix(s, pre) == IF HasPrefix(s, pre) THEN SubSeq(s, Len(pre) + 1, Len(s)) ELSE s

\* strings.Split(s, sep), sep not empty.
RECURSIVE Split(_, _)
Split(s, sep) ==
  LET k == Index(s, sep)
  IN  IF k = 0 THEN <<s>>
      ELSE <<SubSeq(s, 1, k - 1)>> \o Split(SubSeq(s, k + Len(sep), Len(s)), sep)

(***************************************************************************)
(* Text.  A string is a sequence of tokens: words, and the white-space     *)
(* characters " " and "\n".                                                *)
(***************************************************************************)
WhiteSpace == {" ", "\n"}

\* strings.ToLower, of one word: every upper-case letter is replaced.
UpperCase == "ABCDEFGHIJKLMNOPQRSTUVWXYZ"
LowerCase == "abcdefghijklmnopqrstuvwxyz"

LowerChar(c) == IF Index(UpperCase, c) # 0 THEN Char(LowerCase, Index(UpperCase, c)) ELSE c

RECURSIVE ToLowerChars(_)
ToLowerChars(w) ==
  IF w = "" THEN "" ELSE LowerChar(Char(w, 1)) \o ToLowerChars(SubSeq(w, 2, Len(w)))

\* The words of the texts of the model; what ToLowerChars gives for them is
\* computed once.
Vocabulary ==
  { " ", "\n", "Cheese", "Night", "cheese", "night", "where's", "tomorrow's", "the", "lie", "law",
    "talk", "my", "notes", "Tomorrow,", "TOMORROW", "tomorrow", "on", "tonight", "today",
    "crowdcast", "@inlieuoffunshow", "InLieuOfFunShow", "benjaminwittes",
    "h1", "h2", "h3", "h4", "h5" }

LowerOfWord == [w \in Vocabulary |-> ToLowerChars(w)]

ToLowerWord(w) == IF w \in Vocabulary THEN LowerOfWord[w] ELSE ToLowerChars(w)

ToLower(s) == [i \in 1..Len(s) |-> ToLowerWord(s[i])]

\* strings.TrimSpace: white space is cut from both ends.
RECURSIVE TrimLeft(_)
TrimLeft(s) ==
  IF s # <<>> /\ Head(s) \in WhiteSpace THEN TrimLeft(Tail(s)) ELSE s

RECURSIVE TrimRight(_)
TrimRight(s) ==
  IF s # <<>> /\ s[Len(s)] \in WhiteSpace
  THEN TrimRight(SubSeq(s, 1, Len(s) - 1)) ELSE s

TrimSpace(s) == TrimRight(TrimLeft(s))

\* strings.Fields: the maximal runs without white space.
Fields(s) == SelectSeq(s, LAMBDA t : t \notin WhiteSpace)

\* punct.ReplaceAllString(w, ""), punct = \W+: every character that is not a
\* letter, a digit or an underscore is taken out.
WordChars == "0123456789ABCDEFGHIJKLMNOPQRSTUVWXYZ_abcdefghijklmnopqrstuvwxyz"

RECURSIVE StripPunctChars(_)
StripPunctChars(w) ==
  IF w = "" THEN ""
  ELSE (IF Index(WordChars, Char(w, 1)) # 0 THEN Char(w, 1) ELSE "")
         \o StripPunctChars(SubSeq(w, 2, Len(w)))

StripPunctOfWord == [w \in {ToLowerWord(v) : v \in Vocabulary} |-> StripPunctChars(w)]

StripPunct(w) == IF w \in DOMAIN StripPunctOfWord THEN StripPunctOfWord[w] ELSE StripPunctChars(w)

\* Words: the fields of the lower-cased text, each without its punctuation.
Words(s) ==
  LET ws == Fields(TrimSpace(ToLower(s)))
  IN  [k \in 1..Len(ws) |-> StripPunct(ws[k])]

(***************************************************************************)
(* Similarity.  The result num / sqrt(den) is given as the pair            *)
(* <<num, den>>; it is zero exactly when num is.                           *)
(***************************************************************************)
\* A variant of Similarity that divides by the number of words of a.
SimilarityOverFirst(a, b) ==
  LET wa == Range(Words(a))
      wb == Range(Words(b))
      num == Cardinality(wa \cap wb)
  IN  IF wa = {} /\ wb = {} THEN <<1, 1>>
      ELSE IF wa = {} \/ wb = {} THEN <<0, 1>>
      ELSE <<num, Cardinality(wa) * Cardinality(wa)>>

Similarity(a, b) ==
  LET wa == Range(Words(a))
      wb == Range(Words(b))
      num == Cardinality(wa \cap wb)
      den == Cardinality(wa) * Cardinality(wb)
  IN  IF wa = {} /\ wb = {} THEN <<1, 1>>
      ELSE IF den = 0 THEN <<0, 1>>
      ELSE <<num, den>>

SimilarityNonZero(a, b) == Similarity(a, b)[1] # 0

(***************************************************************************)
(* Labels (ilof.go: type Label, Number, MarshalYAML) and strconv.Itoa on   *)
(* the numerals of the model.                                              *)
(***************************************************************************)
Numerals == <<"1", "2", "3", "4", "5", "6", "7", "8", "9">>

Itoa(n) == Numerals[n]

\* Label.Number: the numeric value, or -1 when the label is not a number.
Number(x) ==
  IF \E n \in 1..Len(Numerals) : Numerals[n] = x
  THEN CHOOSE n \in 1..Len(Numerals) : Numerals[n] = x
  ELSE -1

\* Label.MarshalYAML followed by the encoder: a numeric label is written as
\* the number, any other label as the string.
yamlLabel(x) == IF Number(x) >= 0 THEN Itoa(Number(x)) ELSE x

(***************************************************************************)
(* Episodes (type Episode).  A time is a day and an hour of that day; a    *)
(* Date is written as its day (Date.MarshalYAML) and read back as midnight *)
(* of that day (Date.UnmarshalYAML).                                       *)
(***************************************************************************)
Time(day, hour) == [day |-> day, hour |-> hour]

Episode(label, date) ==
  [Episode |-> label, Date |-> date, Season |-> 0, Guests |-> <<>>,
   Topics |-> "", CrowdcastURL |-> "", YouTubeURL |-> "", AcastURL |-> "",
   AudioFileURL |-> "", Summary |-> "", Special |-> FALSE, Tags |-> <<>>,
   Links |-> <<>>, Detail |-> <<>>]

\* Episode.HasTag and Episode.AddTag.
HasTag(e, tag) == \E i \in 1..Len(e.Tags) : e.Tags[i] = tag

\* A variant of AddTag that does not look for the tag first.
AddTagAgain(e, tag) == [e EXCEPT !.Tags = Append(@, tag)]

AddTag(e, tag) ==
  IF ~HasTag(e, tag) THEN [e EXCEPT !.Tags = Append(@, tag)] ELSE e

\* yaml.Marshal of an Episode under its struct tags: episode and date are
\* always written, every other key only when its value is not the zero
\* value; Guests and Detail are not part of the front matter (yaml:"-").
yamlMarshalEpisode(ep) ==
  LET keys == {"episode", "date"}
                \cup (IF ep.Season # 0 THEN {"season"} ELSE {})
                \cup (IF ep.Topics # "" THEN {"topics"} ELSE {})
                \cup (IF ep.CrowdcastURL # "" THEN {"crowdcast"} ELSE {})
                \cup (IF ep.YouTubeURL # "" THEN {"youtube"} ELSE {})
                \cup (IF ep.AcastURL # "" THEN {"acast"} ELSE {})
                \cup (IF ep.AudioFileURL # "" THEN {"audio-file"} ELSE {})
                \cup (IF ep.Summary # "" THEN {"summary"} ELSE {})
                \cup (IF ep.Special THEN {"special"} ELSE {})
                \cup (IF ep.Tags # <<>> THEN {"tags"} ELSE {})
                \cup (IF ep.Links # <<>> THEN {"links"} ELSE {})
  IN  [k \in keys |->
         CASE k = "episode" -> yamlLabel(ep.Episode)
           [] k = "date" -> ep.Date.day
           [] k = "season" -> ep.Season
           [] k = "topics" -> ep.Topics
           [] k = "crowdcast" -> ep.CrowdcastURL
           [] k = "youtube" -> ep.YouTubeURL
           [] k = "acast" -> ep.AcastURL
           [] k = "audio-file" -> ep.AudioFileURL
           [] k = "summary" -> ep.Summary
           [] k = "special" -> ep.Special
           [] k = "tags" -> ep.Tags
           [] k = "links" -> ep.Links]

yamlUnmarshalEpisode(kv) ==
  [Episode |-> yamlField(kv, "episode", ""),
   Date |-> Time(yamlField(kv, "date", 0), 0),
   Season |-> yamlField(kv, "season", 0),
   Guests |-> <<>>,
   Topics |-> yamlField(kv, "topics", ""),
   CrowdcastURL |-> yamlField(kv, "crowdcast", ""),
   YouTubeURL |-> yamlField(kv, "youtube", ""),
   AcastURL |-> yamlField(kv, "acast", ""),
   AudioFileURL |-> yamlField(kv, "audio-file", ""),
   Summary |-> yamlField(kv, "summary", ""),
   Special |-> yamlField(kv, "special", FALSE),
   Tags |-> yamlField(kv, "tags", <<>>),
   Links |-> yamlField(kv, "links", <<>>),
   Detail |-> <<>>]

\* An episode file: "---", the front matter, "---", the detail text.  A file
\* that does not split into these parts, or whose front matter does not
\* decode, is an invalid file.
EpisodeFile(front, body) == [kind |-> "episode", front |-> front, body |-> body]
NoFrontMatter == [k \in {} |-> ""]
InvalidFile == [kind |-> "invalid", front |-> NoFrontMatter, body |-> <<>>]
NoEpisodeFile == [kind |-> "notexist", front |-> NoFrontMatter, body |-> <<>>]

(***************************************************************************)
(* LoadEpisode.                                                            *)
(***************************************************************************)
LoadEpisode(file) ==
  IF file = NoEpisodeFile THEN [err |-> "notexist", ep |-> Episode("", Time(0, 0))]
  ELSE IF file.kind = "invalid" THEN [err |-> "format", ep |-> Episode("", Time(0, 0))]
  ELSE [err |-> "nil",
        ep |-> [yamlUnmarshalEpisode(file.front) EXCEPT !.Detail = TrimSpace(file.body)]]

(***************************************************************************)
(* WriteEpisode.  io is "ok", or "new" when the atomic file cannot be      *)
(* created or committed; then the file at the path stays as it was.        *)
(***************************************************************************)
WriteEpisode(file, ep, io) ==
  IF io # "ok" THEN [err |-> io, file |-> file]
  ELSE [err |-> "nil",
        file |-> EpisodeFile(yamlMarshalEpisode(ep),
                             IF ep.Detail # <<>> THEN Append(ep.Detail, "\n") ELSE <<>>)]

(***************************************************************************)
(* Updates (type TwitterUpdate): the fields createEpisodeFile and          *)
(* checkForUpdate read.                                                    *)
(***************************************************************************)
TwitterUpdate(air, yt, cc, guests) ==
  [AirDate |-> air, YouTube |-> yt, Crowdcast |-> cc, Guests |-> guests]

\* type TwitterUpdate, every field.
TwitterUpdateOf(id, date, air, yt, cc, guests) ==
  [TweetID |-> id, Date |-> date, AirDate |-> air, YouTube |-> yt, Crowdcast |-> cc,
   Guests |-> guests]

CheeseNight == <<"cheese", " ", "night">>
WheresLie == <<"where's", " ", "lie">>

\* A variant of createEpisodeFile that keeps a stream URL the file has when
\* the update has none.
createEpisodeFileKeepURL(file, num, desc, up, io) ==
  LET ld == LoadEpisode(file)
  IN  IF ld.err # "nil" /\ ld.err # "notexist"
      THEN [err |-> ld.err, file |-> file]
      ELSE LET ep0 == IF ld.err = "nil" THEN ld.ep
                      ELSE [Episode(Itoa(num), up.AirDate) EXCEPT !.Detail = desc]
               ep1 == IF SimilarityNonZero(desc, CheeseNight)
                      THEN AddTag(ep0, "cheese-night") ELSE ep0
               ep2 == IF SimilarityNonZero(desc, WheresLie)
                      THEN AddTag(ep1, "truth-from-fiction") ELSE ep1
               ep3 == [ep2 EXCEPT
                         !.CrowdcastURL = IF up.Crowdcast # "" THEN up.Crowdcast ELSE @,
                         !.YouTubeURL = IF up.YouTube # "" THEN up.YouTube ELSE @]
           IN  WriteEpisode(file, ep3, io)

(***************************************************************************)
(* createEpisodeFile.                                                      *)
(***************************************************************************)
createEpisodeFile(file, num, desc, up, io) ==
  LET ld == LoadEpisode(file)
  IN  IF ld.err # "nil" /\ ld.err # "notexist"
      THEN [err |-> ld.err, file |-> file]
      ELSE LET ep0 == IF ld.err = "nil" THEN ld.ep
                      ELSE [Episode(Itoa(num), up.AirDate) EXCEPT !.Detail = desc]
               ep1 == IF SimilarityNonZero(desc, CheeseNight)
                      THEN AddTag(ep0, "cheese-night") ELSE ep0
               ep2 == IF SimilarityNonZero(desc, WheresLie)
                      THEN AddTag(ep1, "truth-from-fiction") ELSE ep1
               ep3 == [ep2 EXCEPT !.CrowdcastURL = up.Crowdcast,
                                  !.YouTubeURL = up.YouTube]
           IN  WriteEpisode(file, ep3, io)

(***************************************************************************)
(* The parts of the state a specification does not use stay at rest.       *)
(***************************************************************************)
IdleWriter ==
  [pc |-> "idle", k |-> 1, temp |-> <<>>, hasTemp |-> FALSE, failed |-> FALSE, err |-> "nil"]

WriteAtRest ==
  /\ kind = "episode"
  /\ target = <<>>
  /\ wr = <<>>
  /\ seen = <<>>

NoFlags ==
  [poll |-> FALSE, pollOne |-> FALSE, force |-> FALSE, dryRun |-> FALSE,
   skipVidCheck |-> FALSE, edit |-> FALSE]

NoLatest == [Episode |-> "", Date |-> Time(0, 0)]

NoTwitterCall == [pc |-> "off"]
NoSimilarityCall == [pc |-> "off"]
NoCaptionCall == [pc |-> "off"]
NoScheduleCall == [pc |-> "off"]

FunctionsAtRest ==
  /\ tu = NoTwitterCall
  /\ sim = NoSimilarityCall
  /\ cap = NoCaptionCall
  /\ sched = NoScheduleCall

PipelineAtRest ==
  /\ flags = NoFlags
  /\ pc = "off"
  /\ exitStatus = -1
  /\ didUpdate = FALSE
  /\ passes = 0
  /\ latest = NoLatest
  /\ updates = <<>>
  /\ idx = 1
  /\ numValid = 0
  /\ editPaths = <<>>
  /\ guestsDirty = FALSE
  /\ epDir = <<>>
  /\ written = {}
  /\ upstream = "none"

(***************************************************************************)
(* The guest-registry specification: calls of AddOrUpdateGuests on one     *)
(* guest file.                                                             *)
(***************************************************************************)
Human(n, t, eps) == Guest(n, t, "u0", "bio", eps)

InitGuestFiles ==
  { NoFile,
    <<CommentLine("c1"), CommentLine("c2")>>,
    <<CommentLine("c1"), JunkLine>>,
    <<CommentLine("c1"), RecLine(yamlMarshalGuest(Human("ann", "h1", <<1>>)))>>,
    <<CommentLine("c1"), CommentLine("c2"), BlankLine,
      RecLine(yamlMarshalGuest(Human("bob", "h2", <<1, 2>>))), BlankLine,
      RecLine(yamlMarshalGuest(Guest("", "h1", "", "", <<2>>)))>>,
    <<RecLine(yamlMarshalGuest(Human("ann", "", <<2>>))),
      CommentLine("c3"),
      RecLine(yamlMarshalGuest(Human("bob", "h1", <<1>>)))>> }

NoCall ==
  [episode |-> 0, guests |-> <<>>, err |-> "nil", rewrote |-> FALSE,
   targets |-> <<>>, again |-> FALSE]

InitGuests ==
  /\ guestFile \in InitGuestFiles
  /\ gcall = NoCall
  /\ epFile = NoEpisodeFile
  /\ ecall = NoCall
  /\ WriteAtRest
  /\ PipelineAtRest
  /\ FunctionsAtRest

GuestCall(episode, guests, io, again) ==
  LET r == AddOrUpdateGuests(episode, guestFile, guests, io)
  IN  /\ guestFile' = r.file
      /\ gcall' = [episode |-> episode, guests |-> guests, err |-> r.err,
                   rewrote |-> r.rewrote, targets |-> r.targets, again |-> again]
      /\ UNCHANGED <<episodeVars, writeVars, pipelineVars, functionVars>>

\* A caller (checkForUpdate, epdate.go) calls AddOrUpdateGuests with some batch.
CallAddOrUpdateGuests ==
  /\ gcall = NoCall
  /\ \E episode \in 1..MaxEpisode, guests \in Batches, io \in GuestIO :
       GuestCall(episode, guests, io, FALSE)

\* The same batch is merged again for the same episode (a later pass finds the
\* same update).
RepeatAddOrUpdateGuests ==
  /\ gcall # NoCall
  /\ gcall.err = "nil"
  /\ ~gcall.again
  /\ \E io \in GuestIO : GuestCall(gcall.episode, gcall.guests, io, TRUE)

\* The call has returned; the caller goes on.
ReturnFromGuests ==
  /\ gcall # NoCall
  /\ gcall' = NoCall
  /\ UNCHANGED <<guestFile, episodeVars, writeVars, pipelineVars, functionVars>>

NextGuests == CallAddOrUpdateGuests \/ RepeatAddOrUpdateGuests \/ ReturnFromGuests

SpecGuests == InitGuests /\ [][NextGuests]_vars

(***************************************************************************)
(* Properties of the guest registry.                                       *)
(***************************************************************************)
NoDuplicates(eps) == \A i, j \in 1..Len(eps) : i # j => eps[i] # eps[j]

\* Every guest of the batch is already recorded in file for the episode.
AllRecorded(episode, guests, file) ==
  LET es == Entries(file)
  IN  \A i \in 1..Len(guests) :
        LET k == findGuest(guests[i], es)
        IN  k # NoGuest /\ OnEpisode(es[k], episode)

\* C4: AddOrUpdateGuests is idempotent.  A call that merges the same batch for
\* the same episode again, or a batch whose every appearance is already
\* recorded for the episode, leaves the file as it is (no record created or
\* modified, no rewrite), returns no error, and no episode list of the file
\* holds a number twice.
C4_Idempotent ==
  [][ (/\ gcall' # NoCall
       /\ gcall'.guests # <<>>
       /\ guestFile # NoFile
       /\ yamlValid(guestFile)
       /\ \/ gcall'.again
          \/ AllRecorded(gcall'.episode, gcall'.guests, guestFile))
      => /\ guestFile' = guestFile
         /\ ~gcall'.rewrote
         /\ gcall'.err = "nil"
         /\ \A i \in 1..Len(Entries(guestFile')) :
              NoDuplicates(Entries(guestFile')[i].Episodes) ]_vars

\* C4 witness: a two-guest batch has been merged a second time into a file that
\* a merge has rewritten.
C4_Witness ==
  /\ gcall.again
  /\ Len(gcall.guests) = 2
  /\ gcall.err = "nil"
  /\ guestFile \notin InitGuestFiles

SameProfile(g1, g2) ==
  /\ g1.Name = g2.Name
  /\ g1.Twitter = g2.Twitter
  /\ g1.URL = g2.URL
  /\ g1.Notes = g2.Notes

\* The first guest of the batch recorded in entry k.
FirstFor(targets, k) ==
  CHOOSE j \in 1..Len(targets) :
    targets[j] = k /\ \A i \in 1..(j - 1) : targets[i] # k

\* C5: in every step, each record of the file keeps its place, its name, its
\* handle, its URL and its notes; its episode list only grows; a record that
\* no guest of the batch was matched with is unchanged; and the records that
\* are new come after the old ones, one per unmatched guest, in the order in
\* which the batch first names them.
C5_RecordsKept ==
  [][ LET old == Entries(guestFile)
          new == Entries(guestFile')
          t   == gcall'.targets
      IN  guestFile' # guestFile =>
            /\ Len(new) >= Len(old)
            /\ \A i \in 1..Len(old) :
                 /\ SameProfile(new[i], old[i])
                 /\ Range(old[i].Episodes) \subseteq Range(new[i].Episodes)
                 /\ (\A j \in 1..Len(t) : t[j] # i) => new[i] = old[i]
            /\ \A i \in (Len(old) + 1)..Len(new) :
                 /\ \E j \in 1..Len(t) : t[j] = i
                 /\ SameProfile(new[i], gcall'.guests[FirstFor(t, i)])
                 /\ new[i].Episodes = <<gcall'.episode>>
            /\ \A i1, i2 \in (Len(old) + 1)..Len(new) :
                 i1 < i2 => FirstFor(t, i1) < FirstFor(t, i2) ]_vars

\* C5 witness: a call has added the episode to an old record whose URL differs
\* from the candidate's, and has appended a new record after it.
C5_Witness ==
  /\ gcall.rewrote
  /\ Len(gcall.targets) = 2
  /\ gcall.targets[1] < gcall.targets[2]
  /\ gcall.targets[2] = Len(Entries(guestFile))
  /\ Entries(guestFile)[gcall.targets[1]].URL = "u0"
  /\ gcall.guests[1].URL = "u1"
  /\ Len(Entries(guestFile)[gcall.targets[1]].Episodes) > 1
  /\ Entries(guestFile)[gcall.targets[2]].Episodes = <<gcall.episode>>

SameHandleOtherName(g1, g2) ==
  g1.Twitter # "" /\ g1.Twitter = g2.Twitter /\ g1.Name # g2.Name

HandleOnly(g) == g.Name = "" /\ g.Twitter # ""

\* A guest without a handle is never recorded in a handle-only record of
\* another name.
NameOnlyKeptApart ==
  LET es == Entries(guestFile)
  IN  \A j \in 1..Len(gcall.targets) :
        (gcall.guests[j].Twitter = "" /\ gcall.targets[j] <= Len(es))
          => ~( /\ HandleOnly(es[gcall.targets[j]])
                /\ es[gcall.targets[j]].Name # gcall.guests[j].Name )

\* C6 as claimed: two guests of a batch with different names and the same
\* non-empty handle are recorded in one record, and a guest with an empty
\* handle and another name is never merged into a handle-only record.
C6_SameHandleOneRecord ==
  /\ \A i, j \in 1..Len(gcall.targets) :
       (i < j /\ SameHandleOtherName(gcall.guests[i], gcall.guests[j]))
         => gcall.targets[i] = gcall.targets[j]
  /\ NameOnlyKeptApart

\* C6 as amended: two guests of a batch with different names and the same
\* non-empty handle are recorded in one record provided neither name is borne
\* by a record already in the file or by another guest merged before them in
\* the batch; a guest with an empty handle and another name is never merged
\* into a handle-only record.
C6_SameHandleOneRecordUnlessNamed ==
  [][ LET g == gcall'.guests
          t == gcall'.targets
          named == { Entries(guestFile)[k].Name : k \in 1..Len(Entries(guestFile)) }
      IN  /\ \A i, j \in 1..Len(t) :
               ( /\ i < j
                 /\ SameHandleOtherName(g[i], g[j])
                 /\ g[i].Name \notin named
                 /\ g[j].Name \notin named
                 /\ \A k \in 1..(j - 1) :
                      k # i => g[k].Name \notin {g[i].Name, g[j].Name} )
                 => t[i] = t[j]
          /\ NameOnlyKeptApart' ]_vars

\* C6 witness: ann@h1 and bob@h1 were merged in one call and share one record.
C6_Witness ==
  /\ gcall.rewrote
  /\ Len(gcall.targets) = 2
  /\ SameHandleOtherName(gcall.guests[1], gcall.guests[2])
  /\ gcall.targets[1] = gcall.targets[2]
  /\ OnEpisode(Entries(guestFile)[gcall.targets[1]], gcall.episode)

\* The list is in ascending order and holds no number twice.
Ascending(eps) == \A i \in 1..(Len(eps) - 1) : eps[i] < eps[i + 1]

\* C25: whatever calls were made, the episode list of every record of the
\* file is ascending and without duplicates, and when the last call returned
\* no error every guest of its batch has a record that lists the episode.
C25_EpisodeListsAscending ==
  LET es == Entries(guestFile)
  IN  /\ \A k \in 1..Len(es) : Ascending(es[k].Episodes)
      /\ (gcall # NoCall /\ gcall.err = "nil")
           => \A j \in 1..Len(gcall.guests) :
                \E k \in 1..Len(es) :
                  /\ isSameGuest(es[k], gcall.guests[j])
                  /\ OnEpisode(es[k], gcall.episode)

\* C25 witness: episode 1 was merged into the record of ann that listed
\* episode 2 only, and the record lists 1 before 2.
C25_Witness ==
  /\ gcall # NoCall
  /\ gcall.rewrote
  /\ gcall.episode = 1
  /\ \E j \in 1..Len(gcall.guests) : gcall.guests[j].Name = "ann"
  /\ \E k \in 1..Len(Entries(guestFile)) :
       /\ Entries(guestFile)[k].Name = "ann"
       /\ Entries(guestFile)[k].Twitter = ""
       /\ Entries(guestFile)[k].Episodes = <<1, 2>>

\* C30: two guests of a batch with blank names and different handles are
\* recorded in two records, one for each handle, and both records list the
\* episode.
C30_BareHandlesKeptApart ==
  (/\ gcall # NoCall
   /\ gcall.err = "nil"
   /\ Len(gcall.guests) = 2
   /\ HandleOnly(gcall.guests[1])
   /\ HandleOnly(gcall.guests[2])
   /\ gcall.guests[1].Twitter # gcall.guests[2].Twitter)
    => \E k1, k2 \in 1..Len(Entries(guestFile)) :
         /\ k1 # k2
         /\ Entries(guestFile)[k1].Twitter = gcall.guests[1].Twitter
         /\ Entries(guestFile)[k2].Twitter = gcall.guests[2].Twitter
         /\ OnEpisode(Entries(guestFile)[k1], gcall.episode)
         /\ OnEpisode(Entries(guestFile)[k2], gcall.episode)

\* The comment block a file starts with: its lines up to the first line that
\* is not a comment line (all of them when every line is a comment line).
RECURSIVE LeadingComments(_)
LeadingComments(data) ==
  IF data = <<>> \/ Head(data).kind # "comment" THEN <<>>
  ELSE <<Head(data)>> \o LeadingComments(Tail(data))

\* C7: every rewrite of the guest file puts the comment block the file started
\* with back in front of the records, unchanged.
C7_CommentsKept ==
  [][ gcall'.rewrote
        => /\ LeadingComments(guestFile') = LeadingComments(guestFile)
           /\ \A i \in (Len(LeadingComments(guestFile)) + 1)..Len(guestFile') :
                guestFile'[i].kind # "comment" ]_vars

(***************************************************************************)
(* The episode-file specification: calls of createEpisodeFile on the file  *)
(* at one path.                                                            *)
(***************************************************************************)
Descriptions ==
  { <<>>,
    <<"Cheese", " ", "Night", "\n">>,
    <<" ", "where's", " ", "the", " ", "lie">>,
    <<"law", " ", "talk">> }

EpisodeUpdates ==
  { TwitterUpdate(Time(d, 2), yt, cc, <<>>) :
      d \in {11, 12}, yt \in {"", "yt1"}, cc \in {"", "cc1"} }

ManualEpisode ==
  [Episode("7", Time(10, 0)) EXCEPT
     !.Season = 3, !.Topics = "law", !.YouTubeURL = "yt0", !.CrowdcastURL = "cc0",
     !.AcastURL = "ac0", !.Summary = "sum", !.Special = TRUE,
     !.Tags = <<"manual", "cheese-night">>, !.Links = <<"link">>]

InitEpisodeFiles ==
  { NoEpisodeFile,
    InvalidFile,
    EpisodeFile(yamlMarshalEpisode(ManualEpisode), <<"\n", "my", " ", "notes", "\n", "\n">>),
    EpisodeFile(yamlMarshalEpisode(Episode("x-special", Time(10, 0))), <<>>) }

InitEpisode ==
  /\ epFile \in InitEpisodeFiles
  /\ ecall = NoCall
  /\ guestFile = NoFile
  /\ gcall = NoCall
  /\ WriteAtRest
  /\ PipelineAtRest
  /\ FunctionsAtRest

\* A caller (checkForUpdate) calls createEpisodeFile for the path.
CallCreateEpisodeFile ==
  /\ ecall = NoCall
  /\ \E num \in 1..MaxNum, desc \in Descriptions, up \in EpisodeUpdates, io \in GuestIO :
       LET r == createEpisodeFile(epFile, num, desc, up, io)
       IN  /\ epFile' = r.file
           /\ ecall' = [num |-> num, desc |-> desc, up |-> up, err |-> r.err]
  /\ UNCHANGED <<guestVars, writeVars, pipelineVars, functionVars>>

\* The call has returned; the caller goes on.
ReturnFromEpisode ==
  /\ ecall # NoCall
  /\ ecall' = NoCall
  /\ UNCHANGED <<epFile, guestVars, writeVars, pipelineVars, functionVars>>

NextEpisode == CallCreateEpisodeFile \/ ReturnFromEpisode

SpecEpisode == InitEpisode /\ [][NextEpisode]_vars

OwnedTags == {"cheese-night", "truth-from-fiction"}

TagFor(tag) == IF tag = "cheese-night" THEN CheeseNight ELSE WheresLie

\* C9: when a (valid) episode file exists at the path, a successful
\* createEpisodeFile rewrites it so that the record read back differs from
\* the record read before only in the two stream URLs and in the tags: the
\* detail and every other field are the same, the old tags are all there, in
\* their order, and after them come only content-derived tags, each at most
\* once, none that was present before, and each only when its phrase has
\* non-zero similarity with the description.
C9_ExistingKept ==
  [][ (ecall' # NoCall /\ ecall'.err = "nil" /\ LoadEpisode(epFile).err = "nil")
      => LET old == LoadEpisode(epFile).ep
             new == LoadEpisode(epFile').ep
             added == SubSeq(new.Tags, Len(old.Tags) + 1, Len(new.Tags))
         IN  /\ LoadEpisode(epFile').err = "nil"
             /\ [new EXCEPT !.Tags = old.Tags,
                            !.YouTubeURL = old.YouTubeURL,
                            !.CrowdcastURL = old.CrowdcastURL] = old
             /\ Len(new.Tags) >= Len(old.Tags)
             /\ SubSeq(new.Tags, 1, Len(old.Tags)) = old.Tags
             /\ \A i \in 1..Len(added) :
                  /\ added[i] \in OwnedTags
                  /\ ~HasTag(old, added[i])
                  /\ SimilarityNonZero(ecall'.desc, TagFor(added[i]))
                  /\ \A j \in 1..Len(added) : i # j => added[i] # added[j] ]_vars

\* C9 witness: the hand-edited episode, which has its own detail, a manual tag
\* and the cheese-night tag, has been rewritten for a description that
\* matches a phrase: it has one more tag and its detail is the old one.
C9_Witness ==
  /\ ecall # NoCall
  /\ ecall.err = "nil"
  /\ ecall.desc # <<>>
  /\ epFile # NoEpisodeFile
  /\ LoadEpisode(epFile).ep.Tags = <<"manual", "cheese-night", "truth-from-fiction">>
  /\ LoadEpisode(epFile).ep.Detail = <<"my", " ", "notes">>
  /\ LoadEpisode(epFile).ep.YouTubeURL = ecall.up.YouTube

\* C10: when no file exists at the path, a successful createEpisodeFile
\* writes a record with the given number as its label, the day of the
\* update's air date as its date and the fetched description as its detail;
\* and after every successful call, on a new or an existing file, the
\* record's YouTube and Crowdcast URLs are the update's.
C10_FreshAndURLs ==
  [][ (ecall' # NoCall /\ ecall'.err = "nil")
      => /\ epFile' # NoEpisodeFile
         /\ LoadEpisode(epFile').err = "nil"
         /\ LoadEpisode(epFile').ep.YouTubeURL = ecall'.up.YouTube
         /\ LoadEpisode(epFile').ep.CrowdcastURL = ecall'.up.Crowdcast
         /\ epFile = NoEpisodeFile
              => /\ Number(LoadEpisode(epFile').ep.Episode) = ecall'.num
                 /\ LoadEpisode(epFile').ep.Date.day = ecall'.up.AirDate.day
                 /\ epFile'.body = (IF ecall'.desc = <<>> THEN <<>>
                                    ELSE Append(ecall'.desc, "\n"))
                 /\ LoadEpisode(epFile').ep.Detail = TrimSpace(ecall'.desc) ]_vars

\* C10 witness: a new episode file has been written for number 2 with a
\* description and both stream URLs.
C10_Witness ==
  /\ ecall # NoCall
  /\ ecall.err = "nil"
  /\ ecall.num = 2
  /\ ecall.desc = <<"law", " ", "talk">>
  /\ epFile # NoEpisodeFile
  /\ LoadEpisode(epFile).ep.Episode = "2"
  /\ LoadEpisode(epFile).ep.Detail = <<"law", " ", "talk">>
  /\ LoadEpisode(epFile).ep.YouTubeURL = "yt1"
  /\ LoadEpisode(epFile).ep.CrowdcastURL = "cc1"

(***************************************************************************)
(* The write specification: WriteEpisode (kind "episode") or the write-    *)
(* back of AddOrUpdateGuests (kind "guests") run by two pipeline instances *)
(* on one path, next to a reader of that path.  atomicfile.New creates a   *)
(* temporary file next to the target; Write writes to the temporary file;  *)
(* Close closes it and renames it over the target, and removes it when     *)
(* that fails; Cancel removes it unless Close was called.                  *)
(*                                                                         *)
(* A call is a sequence of steps, each a write of one chunk to the         *)
(* temporary file or a yaml.Marshal.  WriteEpisode: "---", Marshal, front  *)
(* matter, "---", detail.  AddOrUpdateGuests with two entries: comments,   *)
(* Marshal, record, blank line, Marshal, record.                           *)
(***************************************************************************)
Writers == {1, 2}

WriteStep(c) == [op |-> "write", chunk |-> c]
MarshalStep == [op |-> "marshal", chunk |-> ""]

WriteEpisodeSteps ==
  << WriteStep("---"), MarshalStep, WriteStep("front"), WriteStep("---"),
     WriteStep("detail") >>

AddOrUpdateGuestsSteps ==
  << WriteStep("comments"), MarshalStep, WriteStep("record1"), WriteStep("blank"),
     MarshalStep, WriteStep("record2") >>

Steps == IF kind = "episode" THEN WriteEpisodeSteps ELSE AddOrUpdateGuestsSteps

\* The complete content instance w writes: every chunk of the call.
CompleteContent(w) ==
  LET ws == SelectSeq(Steps, LAMBDA s : s.op = "write")
  IN  [j \in 1..Len(ws) |-> <<w, ws[j].chunk>>]

\* The content the path holds at the start, written by an earlier run.
OldContent == CompleteContent(0)

InitWrite ==
  /\ kind \in {"episode", "guests"}
  /\ target = OldContent
  /\ wr = [w \in Writers |-> IdleWriter]
  /\ seen = OldContent
  /\ guestFile = NoFile
  /\ gcall = NoCall
  /\ epFile = NoEpisodeFile
  /\ ecall = NoCall
  /\ PipelineAtRest
  /\ FunctionsAtRest

\* atomicfile.New: the temporary file is created, or the call returns the
\* error.
AtomicNew(w) ==
  /\ wr[w].pc = "idle"
  /\ \/ wr' = [wr EXCEPT ![w].pc = "open", ![w].hasTemp = TRUE]
     \/ wr' = [wr EXCEPT ![w].pc = "done", ![w].err = "new"]
  /\ UNCHANGED <<kind, target, seen, guestVars, episodeVars, pipelineVars, functionVars>>

\* out.Write / fmt.Fprintln on the temporary file.  The write can fail (the
\* device is full, an I/O error), and then fails from there on; the callers
\* do not look at its result and go on to their next step.
AtomicWrite(w) ==
  /\ wr[w].pc = "open"
  /\ wr[w].k <= Len(Steps)
  /\ Steps[wr[w].k].op = "write"
  /\ \/ /\ ~wr[w].failed
        /\ wr' = [wr EXCEPT ![w].temp = Append(@, <<w, Steps[wr[w].k].chunk>>),
                            ![w].k = @ + 1]
     \/ wr' = [wr EXCEPT ![w].failed = TRUE, ![w].k = @ + 1]
  /\ UNCHANGED <<kind, target, seen, guestVars, episodeVars, pipelineVars, functionVars>>

\* yaml.Marshal: on an error the call returns it, and the deferred Cancel
\* removes the temporary file.
Marshal(w) ==
  /\ wr[w].pc = "open"
  /\ wr[w].k <= Len(Steps)
  /\ Steps[wr[w].k].op = "marshal"
  /\ \/ wr' = [wr EXCEPT ![w].k = @ + 1]
     \/ wr' = [wr EXCEPT ![w].pc = "done", ![w].err = "marshal",
                         ![w].hasTemp = FALSE, ![w].temp = <<>>]
  /\ UNCHANGED <<kind, target, seen, guestVars, episodeVars, pipelineVars, functionVars>>

\* return f.Close(): the temporary file is renamed over the target, or, when
\* closing or renaming fails, removed.  The deferred Cancel then does
\* nothing.
AtomicClose(w) ==
  /\ wr[w].pc = "open"
  /\ wr[w].k > Len(Steps)
  /\ \/ /\ target' = wr[w].temp
        /\ wr' = [wr EXCEPT ![w].pc = "done", ![w].hasTemp = FALSE, ![w].temp = <<>>]
     \/ /\ wr' = [wr EXCEPT ![w].pc = "done", ![w].err = "close",
                            ![w].hasTemp = FALSE, ![w].temp = <<>>]
        /\ UNCHANGED target
  /\ UNCHANGED <<kind, seen, guestVars, episodeVars, pipelineVars, functionVars>>

\* A consumer of the file reads the path.
ReadTarget ==
  /\ seen # target
  /\ seen' = target
  /\ UNCHANGED <<kind, target, wr, guestVars, episodeVars, pipelineVars, functionVars>>

NextWrite ==
  \/ \E w \in Writers : AtomicNew(w)
  \/ \E w \in Writers : AtomicWrite(w)
  \/ \E w \in Writers : Marshal(w)
  \/ \E w \in Writers : AtomicClose(w)
  \/ ReadTarget

SpecWrite == InitWrite /\ [][NextWrite]_vars

CompleteContents == {OldContent} \cup {CompleteContent(w) : w \in Writers}

\* C8: the path holds, and a reader sees, at every step the complete old
\* content or the complete content of one of the writing instances; and an
\* instance that has returned after one of its writes failed has reported an
\* error, has left no temporary file, and has not put its content at the
\* path.
C8_AtomicReplace ==
  /\ target \in CompleteContents
  /\ seen \in CompleteContents
  /\ \A w \in Writers :
       (wr[w].pc = "done" /\ wr[w].failed)
         => /\ wr[w].err # "nil"
            /\ ~wr[w].hasTemp
            /\ \A j \in 1..Len(target) : target[j][1] # w

(***************************************************************************)
(* URLs (net/url), for URLs without user info, fragment and escapes.       *)
(***************************************************************************)
NoURL == [err |-> "no url", Scheme |-> "", Host |-> "", Path |-> "", RawQuery |-> "",
          ForceQuery |-> FALSE]

\* url.Parse: scheme://host/path?query.  A string that begins with a colon
\* has no scheme and is an error; a string without "://" is a path.
urlParse(s) ==
  LET Parsed(front, query, forced) ==
        LET Authority(c) ==
              LET Rest(rest) ==
                    LET Slash(p) ==
                          [err |-> "nil",
                           Scheme |-> IF c = 0 THEN "" ELSE SubSeq(front, 1, c - 1),
                           Host |-> IF c = 0 THEN ""
                                    ELSE IF p = 0 THEN rest ELSE SubSeq(rest, 1, p - 1),
                           Path |-> IF c = 0 THEN rest
                                    ELSE IF p = 0 THEN "" ELSE SubSeq(rest, p, Len(rest)),
                           RawQuery |-> query,
                           ForceQuery |-> (forced /\ query = "")]
                    IN  Slash(Index(rest, "/"))
              IN  Rest(IF c = 0 THEN front ELSE SubSeq(front, c + 3, Len(front)))
        IN  Authority(Index(front, "://"))
      Query(q) ==
        Parsed(IF q = 0 THEN s ELSE SubSeq(s, 1, q - 1),
               IF q = 0 THEN "" ELSE SubSeq(s, q + 1, Len(s)),
               q # 0)
  IN  IF HasPrefix(s, ":") THEN [NoURL EXCEPT !.err = "missing protocol scheme"]
      ELSE Query(Index(s, "?"))

\* URL.String.
urlString(u) ==
  (IF u.Scheme # "" \/ u.Host # "" THEN u.Scheme \o "://" \o u.Host ELSE "")
    \o u.Path
    \o (IF u.ForceQuery \/ u.RawQuery # "" THEN "?" \o u.RawQuery ELSE "")

\* url.ParseQuery: the key/value pairs in order; a pair holding a semicolon
\* is left out and makes the call report an error.
ParsePair(kv) ==
  LET e == Index(kv, "=")
  IN  IF e = 0 THEN <<kv, "">> ELSE <<SubSeq(kv, 1, e - 1), SubSeq(kv, e + 1, Len(kv))>>

ParseQuery(raw) ==
  LET Pairs(parts) ==
        LET Good(good) ==
              [err |-> IF Len(good) = Len(parts) THEN "nil"
                       ELSE "invalid semicolon separator in query",
               q |-> [k \in 1..Len(good) |-> ParsePair(good[k])]]
        IN  Good(SelectSeq(parts, LAMBDA x : Index(x, ";") = 0))
  IN  Pairs(SelectSeq(Split(raw, "&"), LAMBDA x : x # ""))

\* Values.Get: the first value of the key, "" when the key is absent.
Get(q, key) ==
  LET at == { k \in 1..Len(q) : q[k][1] = key }
  IN  IF at = {} THEN "" ELSE q[CHOOSE k \in at : \A j \in at : k <= j][2]

\* Values.Encode of the values left for the one key "v" after every other
\* key was deleted: v=a&v=b.
RECURSIVE EncodePairs(_)
EncodePairs(q) ==
  IF q = <<>> THEN ""
  ELSE q[1][1] \o "=" \o q[1][2] \o (IF Len(q) > 1 THEN "&" ELSE "") \o EncodePairs(Tail(q))

\* parseURL, pickURL: the first of Unwound, Expanded and URL that parses.
parseURL(s) == IF s = "" THEN NoURL ELSE urlParse(s)

pickURL(e) ==
  LET Third(u) == u
      Second(u) == IF u.err = "nil" THEN u ELSE Third(parseURL(e.URL))
      First(u) == IF u.err = "nil" THEN u ELSE Second(parseURL(e.Expanded))
  IN  First(parseURL(e.Unwound))

\* cleanURL: every query parameter but v is dropped.
cleanURL(u) ==
  LET Cleaned(r) ==
        IF r.err # "nil" THEN u
        ELSE [u EXCEPT !.RawQuery = EncodePairs(SelectSeq(r.q, LAMBDA kv : kv[1] = "v"))]
  IN  Cleaned(ParseQuery(u.RawQuery))

\* A variant of YouTubeVideoID that knows youtube.com only by its www name.
YouTubeVideoIDwww(s) ==
  LET NonEmpty(id) == [id |-> id, ok |-> id # ""]
      Query(r) == IF r.err # "nil" THEN [id |-> "", ok |-> FALSE]
                  ELSE NonEmpty(Get(r.q, "v"))
      ByHost(u) ==
        IF u.err # "nil" THEN [id |-> "", ok |-> FALSE]
        ELSE IF u.Host = "www.youtube.com" THEN Query(ParseQuery(u.RawQuery))
        ELSE IF u.Host = "youtu.be" THEN NonEmpty(TrimPrefix(u.Path, "/"))
        ELSE [id |-> "", ok |-> FALSE]
  IN  ByHost(urlParse(s))

(***************************************************************************)
(* The pipeline: main and checkForUpdate of epdate.                        *)
(***************************************************************************)
MaxPasses == 2     \* calls of checkForUpdate in one run of the process
MaxUpdates == 2    \* most updates TwitterUpdates returns for one pass

\* YouTubeVideoID.
YouTubeVideoID(s) ==
  LET NonEmpty(id) == [id |-> id, ok |-> id # ""]
      Query(r) == IF r.err # "nil" THEN [id |-> "", ok |-> FALSE]
                  ELSE NonEmpty(Get(r.q, "v"))
      ByHost(u) ==
        IF u.err # "nil" THEN [id |-> "", ok |-> FALSE]
        ELSE IF u.Host \in {"youtube.com", "www.youtube.com"}
        THEN Query(ParseQuery(u.RawQuery))
        ELSE IF u.Host = "youtu.be" THEN NonEmpty(TrimPrefix(u.Path, "/"))
        ELSE [id |-> "", ok |-> FALSE]
  IN  ByHost(urlParse(s))

\* The description YouTube has for a video.
VideoDescription(id) ==
  IF id = "v1" THEN <<"Cheese", " ", "Night", "\n">> ELSE <<"law", " ", "talk">>

\* fetchEpisodeInfo; yt is what YouTubeVideoInfo does ("ok" or "err").
\* A variant of fetchEpisodeInfo for which a missing video ID is a failed
\* request.
fetchEpisodeInfoNoIDFails(up, yt) ==
  IF ~YouTubeVideoID(up.YouTube).ok \/ yt # "ok"
  THEN [err |-> "fetch", Description |-> <<>>]
  ELSE [err |-> "nil", Description |-> VideoDescription(YouTubeVideoID(up.YouTube).id)]

\* A variant of DryRun that -force overrides.
DryRunUnlessForce(f) == f.dryRun /\ ~f.force

\* checkForUpdate: *doDryRun.
DryRun(f) == f.dryRun

fetchEpisodeInfo(up, yt) ==
  LET v == YouTubeVideoID(up.YouTube)
  IN  IF ~v.ok THEN [err |-> "errNoVideoID", Description |-> <<>>]
      ELSE IF yt # "ok" THEN [err |-> "fetch", Description |-> <<>>]
      ELSE [err |-> "nil", Description |-> VideoDescription(v.id)]

\* What the site reports as its latest episode (LatestEpisode).
SiteLatest == [Episode |-> "1", Date |-> Time(10, 0)]

\* The updates TwitterUpdates can find, by the time of their posts: one
\* with a video, posted with "tomorrow" and so aired on the day after; one
\* without a video link; and one with a video, posted and aired on the day
\* of the first post.
PipelineUpdates ==
  { TwitterUpdateOf("p1", Time(11, 1), Time(12, 1), "https://www.youtube.com/watch?v=v1",
                    "cc1", <<Guest("ann", "h1", "u1", "p1", <<>>)>>),
    TwitterUpdateOf("p2", Time(11, 2), Time(11, 2), "", "cc2",
                    <<Guest("", "h2", "", "", <<>>)>>),
    TwitterUpdateOf("p3", Time(11, 3), Time(11, 3), "https://www.youtube.com/watch?v=v2",
                    "", <<>>) }

\* Errors are values with an identity; two errors can have the same
\* message text and still be different errors.
NilError == [id |-> "nil", msg |-> ""]

\* ErrNoUpdates.
ErrNoUpdates == [id |-> "ErrNoUpdates", msg |-> "no matching updates"]

\* The errors of the search request.
SearchErrors ==
  { [id |-> "search", msg |-> "request failed"],
    [id |-> "search", msg |-> "no matching updates"] }

\* A variant of IsNoUpdates that compares the message texts.
IsNoUpdatesByMessage(err) == err.msg = ErrNoUpdates.msg

\* checkForUpdate: err == ilof.ErrNoUpdates.
IsNoUpdates(err) == err = ErrNoUpdates

\* The results of TwitterUpdates: an error, ErrNoUpdates, or the updates
\* kept (none, when every post found was dropped), the oldest post first.
TwitterResults ==
  { [err |-> e, ups |-> <<>>] : e \in {ErrNoUpdates} \cup SearchErrors }
    \cup { [err |-> NilError, ups |-> b] :
             b \in { s \in SeqsUpTo(PipelineUpdates, MaxUpdates) :
                       \A j, k \in 1..Len(s) :
                         j < k => \/ s[j].Date.day < s[k].Date.day
                                  \/ /\ s[j].Date.day = s[k].Date.day
                                     /\ s[j].Date.hour < s[k].Date.hour } }

\* Episode file paths: _episodes/<air date>-<number>.md.
EpisodePath(date, num) == <<date.day, num>>

Paths == { <<d, n>> : d \in {11, 12}, n \in 2..(1 + MaxUpdates) }

fileExists(path) == epDir[path] # NoEpisodeFile

GuestFilePath == <<0, 0>>

AllFlags ==
  [poll : BOOLEAN, pollOne : BOOLEAN, force : BOOLEAN, dryRun : BOOLEAN,
   skipVidCheck : BOOLEAN, edit : BOOLEAN]

Init ==
  /\ flags \in AllFlags
  /\ pc = "polling"
  /\ exitStatus = -1
  /\ didUpdate = FALSE
  /\ passes = 0
  /\ latest = NoLatest
  /\ updates = <<>>
  /\ idx = 1
  /\ numValid = 0
  /\ editPaths = <<>>
  /\ guestsDirty = FALSE
  /\ epDir \in { [p \in Paths |-> NoEpisodeFile],
                 [p \in Paths |->
                    IF p = <<11, 2>>
                    THEN EpisodeFile(yamlMarshalEpisode(
                           [Episode("2", Time(11, 0)) EXCEPT !.Tags = <<"manual">>]),
                           <<"my", " ", "notes", "\n">>)
                    ELSE NoEpisodeFile] }
  /\ written = {}
  /\ upstream = "none"
  /\ guestFile = <<CommentLine("c1"), RecLine(yamlMarshalGuest(Human("bob", "h1", <<1>>)))>>
  /\ gcall = NoCall
  /\ epFile = NoEpisodeFile
  /\ ecall = NoCall
  /\ WriteAtRest
  /\ FunctionsAtRest

\* log.Fatal, log.Fatalf and os.Exit(1).
\* A variant of Fatal that goes to sleep until the next pass.
FatalSleeps ==
  /\ pc' = "sleeping"
  /\ exitStatus' = exitStatus

Fatal ==
  /\ pc' = "failed"
  /\ exitStatus' = 1

\* A variant of the step after checkForUpdate that stops whenever -poll-one
\* is set.
AfterPassOnce(f, did) ==
  IF f.pollOne THEN "return"
  ELSE IF did THEN (IF ~f.poll THEN "return" ELSE "sleep")
  ELSE IF ~f.poll THEN "exit3" ELSE "sleep"

\* A variant of the step after checkForUpdate that looks only at -poll-one
\* before it exits with status 3.
AfterPassNoPoll(f, did) ==
  IF did THEN (IF f.pollOne \/ ~f.poll THEN "return" ELSE "sleep")
  ELSE IF ~f.pollOne THEN "exit3" ELSE "sleep"

\* main, after checkForUpdate has returned didUpdate: return (status 0),
\* os.Exit(3), or go on to sleep.
AfterPass(f, did) ==
  IF did THEN (IF f.pollOne \/ ~f.poll THEN "return" ELSE "sleep")
  ELSE IF ~f.poll /\ ~f.pollOne THEN "exit3" ELSE "sleep"

Classify(did) ==
  /\ didUpdate' = did
  /\ pc' = CASE AfterPass(flags, did) = "return" -> "done"
             [] AfterPass(flags, did) = "exit3" -> "done"
             [] OTHER -> "sleeping"
  /\ exitStatus' = CASE AfterPass(flags, did) = "return" -> 0
                     [] AfterPass(flags, did) = "exit3" -> 3
                     [] OTHER -> exitStatus

\* checkForUpdate up to its loop: LatestEpisode (site is "ok" or "err") and
\* TwitterUpdates.  (-override is not set.)
StartPass ==
  /\ pc = "polling"
  /\ passes' = passes + 1
  /\ written' = {}
  /\ \E site \in {"ok", "err"}, tw \in TwitterResults :
       IF site # "ok"
       THEN /\ Fatal
            /\ upstream' = "latest"
            /\ UNCHANGED <<didUpdate, latest, updates, idx, numValid, editPaths, guestsDirty>>
       ELSE /\ latest' = SiteLatest
            /\ IF tw.err # NilError /\ ~IsNoUpdates(tw.err)
               THEN /\ Fatal
                    /\ upstream' = "search"
                    /\ UNCHANGED <<didUpdate, updates, idx, numValid, editPaths, guestsDirty>>
               ELSE IF tw.err # NilError
               THEN /\ Classify(FALSE)
                    /\ upstream' = "none"
                    /\ UNCHANGED <<updates, idx, numValid, editPaths, guestsDirty>>
               ELSE /\ upstream' = "none"
                    /\ pc' = "updates"
                    /\ updates' = tw.ups
                    /\ idx' = 1
                    /\ numValid' = 0
                    /\ editPaths' = <<>>
                    /\ guestsDirty' = FALSE
                    /\ UNCHANGED <<didUpdate, exitStatus>>
  /\ UNCHANGED <<flags, epDir, guestFile, gcall, episodeVars, writeVars, functionVars>>

\* One round of the loop over updates.  yt is what YouTubeVideoInfo does,
\* eio and gio what the file system does on the two writes.
ProcessUpdate ==
  /\ pc = "updates"
  /\ idx <= Len(updates)
  /\ \E yt \in {"ok", "err"}, eio \in GuestIO, gio \in GuestIO :
       LET up == updates[idx]
           epNum == Number(latest.Episode) + numValid + 1
           epPath == EpisodePath(up.AirDate, epNum)
           exists == fileExists(epPath)
           info == fetchEpisodeInfo(up, yt)
           desc == info.Description
           failed == IF info.err = "fetch" THEN "video" ELSE "none"
           e == createEpisodeFile(epDir[epPath], epNum, desc, up, eio)
           g == AddOrUpdateGuests(epNum, guestFile, up.Guests, gio)
       IN  IF (exists /\ ~flags.force)
              \/ (info.err = "errNoVideoID" /\ ~flags.skipVidCheck)
           THEN \* continue
                /\ idx' = idx + 1
                /\ upstream' = "none"
                /\ UNCHANGED <<pc, exitStatus, numValid, editPaths, guestsDirty,
                               epDir, written, guestFile>>
           ELSE IF ~DryRun(flags) /\ e.err # "nil"
           THEN /\ Fatal
                /\ upstream' = failed
                /\ UNCHANGED <<idx, numValid, editPaths, guestsDirty, epDir, written,
                               guestFile>>
           ELSE IF ~DryRun(flags) /\ g.err # "nil"
           THEN /\ Fatal
                /\ upstream' = failed
                /\ epDir' = [epDir EXCEPT ![epPath] = e.file]
                /\ written' = written \cup {epPath}
                /\ UNCHANGED <<idx, numValid, editPaths, guestsDirty, guestFile>>
           ELSE /\ IF DryRun(flags)
                   THEN UNCHANGED <<epDir, written, guestFile>>
                   ELSE /\ epDir' = [epDir EXCEPT ![epPath] = e.file]
                        /\ written' = written \cup {epPath}
                        /\ guestFile' = g.file
                /\ editPaths' = Append(editPaths, epPath)
                /\ guestsDirty' = (guestsDirty \/ Len(up.Guests) # 0)
                /\ numValid' = numValid + 1
                /\ idx' = idx + 1
                /\ upstream' = failed
                /\ UNCHANGED <<pc, exitStatus>>
  /\ UNCHANGED <<flags, didUpdate, passes, latest, updates, gcall, episodeVars, writeVars, functionVars>>

\* checkForUpdate after its loop (editor is what editFiles does), and main's
\* step after it has returned true.
EndPass ==
  /\ pc = "updates"
  /\ idx > Len(updates)
  /\ \E editor \in {"ok", "err"} :
       LET paths == IF guestsDirty THEN Append(editPaths, GuestFilePath) ELSE editPaths
       IN  /\ editPaths' = paths
           /\ IF flags.edit /\ Len(paths) # 0 /\ editor # "ok"
              THEN Fatal /\ UNCHANGED didUpdate
              ELSE Classify(TRUE)
  /\ UNCHANGED <<flags, passes, latest, updates, idx, numValid, guestsDirty, epDir,
                 written, upstream, guestFile, gcall, episodeVars, writeVars,
                 functionVars>>

\* time.Sleep(wait) returns and the loop of main starts over.
Wake ==
  /\ pc = "sleeping"
  /\ passes < MaxPasses
  /\ pc' = "polling"
  /\ UNCHANGED <<flags, exitStatus, didUpdate, passes, latest, updates, idx, numValid,
                 editPaths, guestsDirty, epDir, written, upstream, guestFile, gcall,
                 episodeVars, writeVars, functionVars>>

Next == StartPass \/ ProcessUpdate \/ EndPass \/ Wake

Spec == Init /\ [][Next]_vars

OneShot == ~flags.poll /\ ~flags.pollOne
Continuous == flags.poll /\ ~flags.pollOne
InPass == {"polling", "updates"}

\* C1: in one-shot mode (and not a dry run) a process that has ended
\* without a failure has status 0 exactly when the pass wrote at least one
\* episode file and status 3 otherwise, a process that has failed has a
\* status other than 0 and 3, and a running process has no status.
C1_ExitCodes ==
  (OneShot /\ ~flags.dryRun)
    => /\ pc = "done" => /\ exitStatus \in {0, 3}
                         /\ exitStatus = 0 <=> written # {}
       /\ pc = "failed" => exitStatus \notin {0, 3, -1}
       /\ pc \notin {"done", "failed"} => exitStatus = -1

\* C2 as stated: with -poll-one the process makes one pass and never sleeps.
C2_SinglePass ==
  flags.pollOne => (passes <= 1 /\ pc # "sleeping")

\* C2, amended: with -poll-one the process stops, with status 0, after the
\* first pass that reports an update (checkForUpdate returns true); after a
\* pass that reports no update it sleeps and then polls again; it never exits
\* with status 3.
C2_StopsAfterFirstUpdate ==
  [][ flags.pollOne
      => /\ (pc \in InPass /\ pc' = "done") => (didUpdate' /\ exitStatus' = 0)
         /\ (pc \in InPass /\ pc' = "sleeping") => ~didUpdate'
         /\ (pc \in InPass /\ pc' \notin InPass) => pc' \in {"done", "sleeping", "failed"}
         /\ (pc = "sleeping" /\ pc' # pc) => (pc' = "polling" /\ ~didUpdate)
         /\ pc = "done" => pc' = "done"
         /\ exitStatus' # 3 ]_vars

\* C2 witness: with -poll-one, a second pass has been made after a pass
\* without an update, it has reported an update, and the process has stopped
\* with status 0.
C2_Witness ==
  /\ flags.pollOne
  /\ passes = 2
  /\ pc = "done"
  /\ didUpdate
  /\ exitStatus = 0

\* C3: in continuous-poll mode every pass that does not fail is followed by
\* SLEEPING, whether it reported an update or not, and SLEEPING only by
\* POLLING; the process never reaches DONE and never has status 0 or 3.
C3_ContinuousNeverDone ==
  [][ Continuous
      => /\ (pc \in InPass /\ pc' \notin InPass) => pc' \in {"sleeping", "failed"}
         /\ (pc = "sleeping" /\ pc' # pc) => pc' = "polling"
         /\ pc' # "done"
         /\ exitStatus' \notin {0, 3} ]_vars

\* C3 witness: in continuous-poll mode a pass without an update and then a
\* pass with an update that wrote an episode file were made, and the process
\* sleeps again.
C3_Witness ==
  /\ Continuous
  /\ passes = 2
  /\ pc = "sleeping"
  /\ didUpdate
  /\ written # {}
  /\ exitStatus = -1

\* C13 as stated: a failed request of a pass (the latest episode, the
\* search, or the video details) ends the process with a failure status,
\* with and without -poll; main does not sleep and poll again after it.
C13_UpstreamFailureIsFatal ==
  upstream # "none" => (pc = "failed" /\ exitStatus = 1)

\* C13, amended: a failed request for the latest episode or a failed search
\* (other than ErrNoUpdates) ends the process with status 1, with and
\* without -poll, and main does not sleep or poll after it; a failed request
\* for the video details ends nothing: the update is processed with an empty
\* description and the loop goes on to the next update, unless one of the
\* two writes fails.
C13_LookupAndSearchFailuresAreFatal ==
  /\ [](upstream \in {"latest", "search"} => (pc = "failed" /\ exitStatus = 1))
  /\ [][ (pc = "failed") => (pc' = "failed" /\ passes' = passes) ]_vars
  /\ [][ (upstream' = "video" /\ idx' = idx + 1)
         => LET up == updates[idx]
                epNum == Number(latest.Episode) + numValid + 1
                epPath == EpisodePath(up.AirDate, epNum)
            IN  /\ pc' = "updates"
                /\ numValid' = numValid + 1
                /\ editPaths' = Append(editPaths, epPath)
                /\ ~flags.dryRun
                     => \E eio \in GuestIO :
                          /\ createEpisodeFile(epDir[epPath], epNum, <<>>, up, eio).err = "nil"
                          /\ epDir'[epPath]
                               = createEpisodeFile(epDir[epPath], epNum, <<>>, up, eio).file ]_vars

\* In the second pass of a run with -poll the search has failed and the
\* process has ended with status 1.
C13_Witness ==
  /\ upstream = "search"
  /\ flags.poll
  /\ passes = 2
  /\ pc = "failed"
  /\ exitStatus = 1

\* C14: with -dry-run no step of a pass creates or changes an episode file or
\* changes the guest file, whatever the updates and the other flags are.
C14_DryRunWritesNothing ==
  [][ flags.dryRun => (epDir' = epDir /\ guestFile' = guestFile /\ written' \subseteq written) ]_vars

\* With -dry-run and -force an update with a guest has gone through the loop
\* for an episode file that exists, and nothing was written.
C14_Witness ==
  /\ flags.dryRun
  /\ flags.force
  /\ pc = "updates"
  /\ numValid >= 1
  /\ guestsDirty
  /\ \E k \in 1..Len(editPaths) : fileExists(editPaths[k])
  /\ written = {}

\* C15: an update without a usable video ID is skipped alone when
\* -skip-video-check is off: no episode file is written, the guest file is
\* not touched, the count of valid updates (and so the next episode number)
\* stays, and the loop goes on with the next update; with -skip-video-check
\* the update is processed with an empty description.
C15_NoVideoIDSkipsOne ==
  [][ (pc = "updates" /\ idx <= Len(updates) /\ ~YouTubeVideoID(updates[idx].YouTube).ok)
        => LET up == updates[idx]
               epNum == Number(latest.Episode) + numValid + 1
               epPath == EpisodePath(up.AirDate, epNum)
           IN  IF ~flags.skipVidCheck
               THEN /\ idx' = idx + 1
                    /\ pc' = "updates"
                    /\ UNCHANGED <<epDir, guestFile, numValid, editPaths, guestsDirty,
                                   written, exitStatus>>
               ELSE (idx' = idx + 1 /\ ~(fileExists(epPath) /\ ~flags.force))
                      => /\ numValid' = numValid + 1
                         /\ pc' = "updates"
                         /\ ~flags.dryRun
                              => \E eio \in GuestIO :
                                   /\ createEpisodeFile(epDir[epPath], epNum, <<>>, up, eio).err = "nil"
                                   /\ epDir'[epPath]
                                        = createEpisodeFile(epDir[epPath], epNum, <<>>, up, eio).file ]_vars

\* Without -skip-video-check the first update of a pass had no video ID and
\* was skipped, and the second got the episode number after the latest
\* episode and its file.
C15_Witness ==
  /\ ~flags.skipVidCheck
  /\ ~flags.dryRun
  /\ pc = "updates"
  /\ Len(updates) = 2
  /\ idx = 3
  /\ ~YouTubeVideoID(updates[1].YouTube).ok
  /\ numValid = 1
  /\ editPaths = <<EpisodePath(updates[2].AirDate, Number(latest.Episode) + 1)>>
  /\ written = {EpisodePath(updates[2].AirDate, Number(latest.Episode) + 1)}

(***************************************************************************)
(* TwitterUpdates.  Times are hours: Time(day, hour).                      *)
(***************************************************************************)
MaxTweets == 3     \* most posts in one answer of the search

Hours(t) == t.day * 24 + t.hour
TimeOf(h) == Time(h \div 24, h % 24)
AddHours(t, h) == TimeOf(Hours(t) + h)
After(t, u) == Hours(t) > Hours(u)

\* Time.AddDate(0, 0, days).
AddDate(t, days) == Time(t.day + days, t.hour)

\* limitBeforeToday(d, limit), limit in hours.
limitBeforeToday(d, limit, now) ==
  IF Hours(now) - Hours(d) > limit THEN AddHours(Time(now.day, 0), 0 - limit) ELSE d

KnownUsers == {"benjaminwittes", "crowdcast", "inlieuoffunshow", "youtube"}

\* The users the search includes with its answer (IncludedUsers): the
\* accounts whose profile is known.  Two accounts bear the same name.
NoEntities == <<>>
User(name, url, desc, entities) ==
  [Name |-> name, ProfileURL |-> url, Description |-> desc, Entities |-> entities]

IncludedUsers ==
  [h \in {"h1", "h4", "h5"} |->
     CASE h = "h1" -> User("ann", "t.co/a", "bio", NoEntities)
       [] h = "h4" -> User("ann", "t.co/b", "", <<[URL |-> "t.co/b", Expanded |-> "b.example"]>>)
       [] h = "h5" -> User("bob", "", "", NoEntities)]

\* pickUserURL: the expanded form of the profile URL when the user's
\* entities have it.
pickUserURL(info) ==
  LET hit == { k \in 1..Len(info.Entities) :
                 info.Entities[k].URL = info.ProfileURL /\ info.Entities[k].Expanded # "" }
  IN  IF hit = {} THEN info.ProfileURL
      ELSE info.Entities[CHOOSE k \in hit : \A j \in hit : k <= j].Expanded

\* A post: tweets.Tweet with its URL and mention entities.
Entity(expanded) == [Unwound |-> "", Expanded |-> expanded, URL |-> "https://t.co/x"]

Tweet(id, at, text, urls, mentions) ==
  [ID |-> id, CreatedAt |-> at, Text |-> text, URLs |-> urls, Mentions |-> mentions]

Posts ==
  { Tweet("t1", Time(12, 23), <<"Tomorrow,", " ", "on", " ", "@inlieuoffunshow">>,
          <<Entity("http://youtu.be/foobar?q=baz")>>, <<"InLieuOfFunShow", "h1">>),
    Tweet("t2", Time(13, 0), <<"tonight", " ", "on">>,
          <<Entity("https://youtube.com/watch?v=foobar&feature=youtu.be")>>, <<"h1">>),
    Tweet("t3", Time(13, 1), <<"today", " ", "on">>,
          <<Entity("https://google.com?x=1")>>, <<"benjaminwittes">>),
    Tweet("t4", Time(13, 2), <<"crowdcast">>,
          <<Entity("https://www.crowdcast.io/e/ilof?utm=x")>>, <<"h2">>),
    Tweet("t5", Time(13, 3), <<"crowdcast">>,
          <<Entity("https://www.crowdcast.io/e/ilof?utm=x")>>, <<"h3">>),
    Tweet("t6", Time(13, 4), <<"today", " ", "on", " ", "tomorrow's">>,
          <<Entity("https://crowdcast.io/e/two")>>, <<"h1", "h5">>),
    Tweet("t7", Time(13, 5), <<"today", " ", "on">>,
          <<Entity("https://crowdcast.io/e/two")>>, <<"h1", "h4">>),
    Tweet("t8", Time(13, 6), <<"today", " ", "on">>,
          <<Entity("https://youtube.com/watch"), Entity("https://youtu.be/"),
            [Unwound |-> ":bad", Expanded |-> "", URL |-> "https://m.youtube.com/watch?v=mob"],
            Entity("https://www.youtube.com/watch?v=semi;x=1")>>, <<>>),
    Tweet("t9", Time(13, 7), <<"TOMORROW", " ", "on">>,
          <<[Unwound |-> "https://www.youtube.com/watch?t=5&v=kiss_me&v=two",
             Expanded |-> "https://youtu.be/other", URL |-> "https://t.co/y"],
            Entity("https://google.com?v=goo")>>, <<>>) }

\* A variant of ContainsWord that compares the fields of the text as they
\* are written.
ContainsWordAsWritten(s, word) == word \in Range(Fields(s))

\* ContainsWord.
ContainsWord(s, word) == ToLowerWord(word) \in Range(Words(s))

\* TwitterUpdates, the loop over tw.Entities.URLs: stream links by host.
RECURSIVE ScanURLs(_, _)
ScanURLs(up, urls) ==
  LET Video(v) ==
        IF v.ok THEN [up EXCEPT !.YouTube = "https://www.youtube.com/watch?v=" \o v.id]
        ELSE up
      Picked(u) ==
        IF u.err # "nil" THEN up
        ELSE IF u.Host \in {"crowdcast.io", "www.crowdcast.io"}
        THEN [up EXCEPT !.Crowdcast = urlString(u)]
        ELSE Video(YouTubeVideoID(urlString(cleanURL(u))))
  IN  IF urls = <<>> THEN up
      ELSE ScanURLs(Picked(pickURL(Head(urls))), Tail(urls))

\* TwitterUpdates, the loop over tw.Entities.Mentions: guests not on the
\* stop list.
RECURSIVE ScanMentions(_, _)
ScanMentions(up, mentions) ==
  IF mentions = <<>> THEN up
  ELSE LET m == Head(mentions)
           g == IF m \in DOMAIN IncludedUsers
                THEN Guest(IncludedUsers[m].Name, m, pickUserURL(IncludedUsers[m]),
                           IncludedUsers[m].Description, <<>>)
                ELSE Guest("", m, "", "", <<>>)
           next == IF ToLowerWord(m) \in KnownUsers THEN up
                   ELSE [up EXCEPT !.Guests = Append(@, g)]
       IN  ScanMentions(next, Tail(mentions))

\* TwitterUpdates, the update made from one post.
UpdateOf(tw) ==
  LET air == IF ContainsWord(tw.Text, "tomorrow") THEN AddDate(tw.CreatedAt, 1)
             ELSE tw.CreatedAt
  IN  ScanMentions(ScanURLs(TwitterUpdateOf(tw.ID, tw.CreatedAt, air, "", "", <<>>),
                            tw.URLs),
                   tw.Mentions)

\* guestListsEqual.
guestListsEqual(g1, g2) ==
  /\ Len(g1) = Len(g2)
  /\ \A k \in 1..Len(g1) : findGuest(g1[k], g2) # NoGuest

\* isSameEpisode.
isSameEpisode(u1, u2) ==
  /\ u1.YouTube = u2.YouTube
  /\ u1.Crowdcast = u2.Crowdcast
  /\ guestListsEqual(u1.Guests, u2.Guests)

\* shouldKeepUpdate.
\* A variant of shouldKeepUpdate that does not look at the updates kept
\* before.
shouldKeepUpdateNotEmpty(u, us) ==
  ~(u.Crowdcast = "" /\ u.YouTube = "" /\ Len(u.Guests) = 0)

shouldKeepUpdate(u, us) ==
  /\ ~(u.Crowdcast = "" /\ u.YouTube = "" /\ Len(u.Guests) = 0)
  /\ \A k \in 1..Len(us) : ~isSameEpisode(us[k], u)

\* A variant of the reversal that leaves the order as it is.
ReverseNot(s) == s

\* The swap loop that ends TwitterUpdates.
Reverse(s) == [k \in 1..Len(s) |-> s[Len(s) + 1 - k]]

(***************************************************************************)
(* The TwitterUpdates specification: one call, post by post.               *)
(***************************************************************************)
WeekHours == 168   \* 7*24*time.Hour, the limit of the search history
AirHours == 22     \* 22*time.Hour, from the since date to the air time

Sinces == {Time(2, 0), Time(12, 0), Time(13, 0), Time(14, 0)}
Nows == {Time(13, 12), Time(14, 2), Time(14, 23)}

\* What the search can answer for a start time: an error, or posts made
\* from the start time up to now, the newest first.
Responses(start, now) ==
  { [err |-> e, Tweets |-> <<>>] : e \in SearchErrors }
    \cup { [err |-> NilError, Tweets |-> s] :
             s \in { q \in SeqsUpTo(Posts, MaxTweets) :
                       /\ \A k \in 1..Len(q) :
                            /\ ~After(start, q[k].CreatedAt)
                            /\ ~After(q[k].CreatedAt, now)
                       /\ \A k \in 1..(Len(q) - 1) :
                            After(q[k].CreatedAt, q[k + 1].CreatedAt) } }

InitTwitter ==
  /\ \E since \in Sinces, now \in Nows :
       tu = [pc |-> "call", since |-> since, now |-> now, Tweets |-> <<>>, idx |-> 1,
             ups |-> <<>>, dropped |-> <<>>, queries |-> <<>>, err |-> NilError,
             ret |-> <<>>, caller |-> ""]
  /\ sim = NoSimilarityCall
  /\ cap = NoCaptionCall
  /\ sched = NoScheduleCall
  /\ guestFile = NoFile
  /\ gcall = NoCall
  /\ epFile = NoEpisodeFile
  /\ ecall = NoCall
  /\ WriteAtRest
  /\ PipelineAtRest

\* TwitterUpdates up to its loop: the since date is limited to the search
\* history, and the search is made unless its start time is in the future.
TwitterSearch ==
  /\ tu.pc = "call"
  /\ LET since == limitBeforeToday(tu.since, WeekHours, tu.now)
         then == AddHours(since, AirHours)
     IN  IF After(then, tu.now)
         THEN tu' = [tu EXCEPT !.pc = "done", !.err = ErrNoUpdates]
         ELSE \E rsp \in Responses(then, tu.now) :
                IF rsp.err # NilError
                THEN tu' = [tu EXCEPT !.pc = "done", !.err = rsp.err,
                                      !.queries = Append(@, then)]
                ELSE IF Len(rsp.Tweets) = 0
                THEN tu' = [tu EXCEPT !.pc = "done", !.err = ErrNoUpdates,
                                      !.queries = Append(@, then)]
                ELSE tu' = [tu EXCEPT !.pc = "loop", !.Tweets = rsp.Tweets,
                                      !.queries = Append(@, then)]
  /\ UNCHANGED <<sim, cap, sched, guestVars, episodeVars, writeVars, pipelineVars>>

\* One round of the loop over rsp.Tweets.
TwitterTweet ==
  /\ tu.pc = "loop"
  /\ tu.idx <= Len(tu.Tweets)
  /\ LET Made(up) ==
           IF shouldKeepUpdate(up, tu.ups)
           THEN tu' = [tu EXCEPT !.ups = Append(@, up), !.idx = @ + 1]
           ELSE tu' = [tu EXCEPT !.dropped = Append(@, up), !.idx = @ + 1]
     IN  Made(UpdateOf(tu.Tweets[tu.idx]))
  /\ UNCHANGED <<sim, cap, sched, guestVars, episodeVars, writeVars, pipelineVars>>

\* After the loop: the updates kept are put in the reverse order and
\* returned.
TwitterReturn ==
  /\ tu.pc = "loop"
  /\ tu.idx > Len(tu.Tweets)
  /\ tu' = [tu EXCEPT !.pc = "done", !.ret = Reverse(tu.ups)]
  /\ UNCHANGED <<sim, cap, sched, guestVars, episodeVars, writeVars, pipelineVars>>

\* checkForUpdate after its call of TwitterUpdates: no update when the
\* error is ErrNoUpdates, the end of the process for any other error, the
\* loop over the updates without error.
TwitterCaller ==
  /\ tu.pc = "done"
  /\ tu' = [tu EXCEPT !.pc = "handled",
                      !.caller = IF tu.err = NilError THEN "updates"
                                 ELSE IF IsNoUpdates(tu.err) THEN "return false"
                                 ELSE "exit 1"]
  /\ UNCHANGED <<sim, cap, sched, guestVars, episodeVars, writeVars, pipelineVars>>

NextTwitter == TwitterSearch \/ TwitterTweet \/ TwitterReturn \/ TwitterCaller

SpecTwitter == InitTwitter /\ [][NextTwitter]_vars

\* Two guest lists hold the same guests: each guest of one is a guest of
\* the other, by isSameGuest.
SameGuestSet(g1, g2) ==
  /\ \A k \in 1..Len(g1) : \E j \in 1..Len(g2) : isSameGuest(g1[k], g2[j])
  /\ \A j \in 1..Len(g2) : \E k \in 1..Len(g1) : isSameGuest(g2[j], g1[k])

\* C11: the update made from a post is kept exactly when it has a YouTube
\* link, a Crowdcast link or a guest, and no update kept before it in the
\* batch has the same YouTube link, the same Crowdcast link and the same
\* guests, whichever of the two guest lists is looked at first.
C11_KeptIffNewAndNotEmpty ==
  [][ (tu.pc = "loop" /\ tu'.pc = "loop")
      => LET up == UpdateOf(tu.Tweets[tu.idx])
             kept == (tu'.ups = Append(tu.ups, up))
         IN  kept <=> /\ (up.YouTube # "" \/ up.Crowdcast # "" \/ Len(up.Guests) > 0)
                      /\ \A k \in 1..Len(tu.ups) :
                           ~(/\ tu.ups[k].YouTube = up.YouTube
                             /\ tu.ups[k].Crowdcast = up.Crowdcast
                             /\ SameGuestSet(tu.ups[k].Guests, up.Guests)) ]_vars

\* The posts whose updates a finished call returned.
ReturnedIDs == { tu.ret[i].TweetID : i \in 1..Len(tu.ret) }

Returned == tu.pc \in {"done", "handled"} /\ tu.err = NilError

SameLinks(u1, u2) == u1.YouTube = u2.YouTube /\ u1.Crowdcast = u2.Crowdcast

\* Identical links, identical guest sets, and as many guest candidates.
SameLinksAndGuests(u1, u2) ==
  /\ SameLinks(u1, u2)
  /\ SameGuestSet(u1.Guests, u2.Guests)
  /\ Len(u1.Guests) = Len(u2.Guests)

IsEmptyUpdate(u) == u.Crowdcast = "" /\ u.YouTube = "" /\ Len(u.Guests) = 0

\* C12 as stated: of two posts of one search answer whose updates have
\* identical links and identical guest sets, exactly one update is returned,
\* the one from the earlier post.
C12_EarlierSurvives ==
  Returned =>
    \A j \in 1..Len(tu.Tweets) : \A k \in (j + 1)..Len(tu.Tweets) :
      LET later == UpdateOf(tu.Tweets[j])
          earlier == UpdateOf(tu.Tweets[k])
      IN  (SameLinks(later, earlier) /\ SameGuestSet(later.Guests, earlier.Guests))
            => (earlier.TweetID \in ReturnedIDs /\ later.TweetID \notin ReturnedIDs)

\* C12, amended: of two posts of one search answer whose updates have
\* identical links, identical guest sets and as many guest candidates, the
\* update of the earlier post is never returned; the update of the later
\* post is not returned when it has no link and no guest, and otherwise it
\* or an update with the same links from a still later post is returned;
\* the updates returned are in order from the oldest post to the newest.
C12_LaterSurvives ==
  Returned =>
    /\ \A j \in 1..Len(tu.Tweets) : \A k \in (j + 1)..Len(tu.Tweets) :
         LET later == UpdateOf(tu.Tweets[j])
             earlier == UpdateOf(tu.Tweets[k])
         IN  SameLinksAndGuests(later, earlier)
               => /\ earlier.TweetID \notin ReturnedIDs
                  /\ IsEmptyUpdate(later) => later.TweetID \notin ReturnedIDs
                  /\ ~IsEmptyUpdate(later)
                       => \E i \in 1..j :
                            /\ tu.Tweets[i].ID \in ReturnedIDs
                            /\ SameLinks(UpdateOf(tu.Tweets[i]), later)
    /\ \A i \in 1..(Len(tu.ret) - 1) : After(tu.ret[i + 1].Date, tu.ret[i].Date)

\* Two posts with the same link and the same guest were answered, and the
\* only update returned is that of the later post.
C12_Witness ==
  /\ Returned
  /\ Len(tu.Tweets) = 2
  /\ SameLinksAndGuests(UpdateOf(tu.Tweets[1]), UpdateOf(tu.Tweets[2]))
  /\ tu.ret = <<UpdateOf(tu.Tweets[1])>>
  /\ After(tu.Tweets[1].CreatedAt, tu.Tweets[2].CreatedAt)

\* The updates a call has made so far, kept or not.
Made == Range(tu.ups) \cup Range(tu.dropped)

\* The string pickURL takes from a URL entity.
PickedString(e) ==
  IF parseURL(e.Unwound).err = "nil" THEN e.Unwound
  ELSE IF parseURL(e.Expanded).err = "nil" THEN e.Expanded
  ELSE IF parseURL(e.URL).err = "nil" THEN e.URL
  ELSE ""

\* The video identifier of a URL by its host: the v parameter for
\* youtube.com and www.youtube.com, the path after the leading slash for
\* youtu.be, none for any other host.
VideoIDByHost(s) ==
  LET ByHost(u) ==
        IF u.err # "nil" THEN ""
        ELSE IF u.Host \in {"youtube.com", "www.youtube.com"}
        THEN IF ParseQuery(u.RawQuery).err # "nil" THEN ""
             ELSE Get(ParseQuery(u.RawQuery).q, "v")
        ELSE IF u.Host = "youtu.be" /\ HasPrefix(u.Path, "/")
        THEN SubSeq(u.Path, 2, Len(u.Path))
        ELSE ""
  IN  ByHost(urlParse(s))

HostOf(s) == urlParse(s).Host

\* The greatest member of a non-empty set of numbers.
Greatest(S) == CHOOSE k \in S : \A j \in S : j <= k

\* The YouTube link of a post: the watch URL of the last of its URLs that
\* has a video identifier, with that identifier as the only parameter.
LinkOfLastVideo(tw) ==
  LET strs == [k \in 1..Len(tw.URLs) |-> PickedString(tw.URLs[k])]
      rec == { k \in 1..Len(strs) :
                 /\ strs[k] # ""
                 /\ HostOf(strs[k]) \notin {"crowdcast.io", "www.crowdcast.io"}
                 /\ VideoIDByHost(strs[k]) # "" }
  IN  IF rec = {} THEN ""
      ELSE "https://www.youtube.com/watch?v=" \o VideoIDByHost(strs[Greatest(rec)])

\* The Crowdcast link of a post: the last of its URLs on a Crowdcast host,
\* as it was given.
LastCrowdcast(tw) ==
  LET strs == [k \in 1..Len(tw.URLs) |-> PickedString(tw.URLs[k])]
      cc == { k \in 1..Len(strs) :
                strs[k] # "" /\ HostOf(strs[k]) \in {"crowdcast.io", "www.crowdcast.io"} }
  IN  IF cc = {} THEN "" ELSE strs[Greatest(cc)]

\* C17: YouTubeVideoID gives the v parameter for the hosts youtube.com and
\* www.youtube.com and the path after the slash for youtu.be, with true, and
\* "" with false when that is empty or the host is another one; the YouTube
\* link of an update is https://www.youtube.com/watch?v=<id> for the last
\* recognized URL of the post, without any other parameter; a URL of another
\* host does not change the update's YouTube link, and a URL of a Crowdcast
\* host is recorded as it was given.
C17_VideoLinks ==
  \A up \in Made :
    \E tw \in Range(tu.Tweets) :
      /\ tw.ID = up.TweetID
      /\ up.YouTube = LinkOfLastVideo(tw)
      /\ up.Crowdcast = LastCrowdcast(tw)
      /\ \A k \in 1..Len(tw.URLs) :
           PickedString(tw.URLs[k]) # ""
             => YouTubeVideoID(PickedString(tw.URLs[k]))
                  = [id |-> VideoIDByHost(PickedString(tw.URLs[k])),
                     ok |-> VideoIDByHost(PickedString(tw.URLs[k])) # ""]

\* A call returned the updates of a post with http://youtu.be/foobar?q=baz
\* and of a post with www.youtube.com/watch?t=5&v=kiss_me&v=two followed by a
\* google.com URL.
C17_Witness ==
  /\ Returned
  /\ \E i, j \in 1..Len(tu.ret) :
       /\ tu.ret[i].TweetID = "t1"
       /\ tu.ret[i].YouTube = "https://www.youtube.com/watch?v=foobar"
       /\ tu.ret[j].TweetID = "t9"
       /\ tu.ret[j].YouTube = "https://www.youtube.com/watch?v=kiss_me"

\* The start time of the search of a call: the since date, limited to the
\* search history, and 22 hours.
Then == AddHours(limitBeforeToday(tu.since, WeekHours, tu.now), AirHours)

\* C20: when the start time of the search is later than now, TwitterUpdates
\* makes no search request and returns ErrNoUpdates; its caller takes an
\* error for "no updates" only when it is the value ErrNoUpdates itself, and
\* takes any other error for a failure, whatever its message.
C20_FutureWindowIsNoUpdates ==
  /\ (tu.pc \in {"done", "handled"} /\ After(Then, tu.now))
       => (tu.queries = <<>> /\ tu.err = ErrNoUpdates)
  /\ tu.pc = "handled"
       => /\ tu.err = ErrNoUpdates => tu.caller = "return false"
          /\ (tu.err # NilError /\ tu.err # ErrNoUpdates) => tu.caller = "exit 1"

\* A call whose search would start in the future has returned, and its
\* caller went on without an update.
C20_Witness ==
  /\ tu.pc = "handled"
  /\ After(Then, tu.now)
  /\ tu.queries = <<>>
  /\ tu.err = ErrNoUpdates
  /\ tu.caller = "return false"

(***************************************************************************)
(* YouTubeCaptionURL: one call on one watch page.                          *)
(***************************************************************************)
MaxTracks == 2     \* most caption tracks of a watch page

\* type captionInfo.
captionInfo(url, lang) == [URL |-> url, Lang |-> lang]

CaptionTracks == SeqsUpTo({ captionInfo(u, l) : u \in {"u1", "u2"}, l \in {"en", "fr"} },
                          MaxTracks)

\* What loadWatchPage can give: no page, or a page.  Of a page it matters
\* whether it has the recaptcha class and the word playabilityStatus, and
\* what follows "captions": when that is there: something that is no JSON
\* value, an object without playerCaptionsTracklistRenderer, or an object
\* with the renderer and its captionTracks.
WatchPages ==
  [load : {"ok", "err"}, recaptcha : BOOLEAN, playability : BOOLEAN,
   captions : {"absent", "garbage", "no renderer", "renderer"}, tracks : CaptionTracks]

CaptionResult(url, err) == [url |-> url, err |-> err, panic |-> FALSE]

\* A run-time panic of the call: nothing is returned.
CaptionPanic == [url |-> "", err |-> "nil", panic |-> TRUE]

InitCaption ==
  /\ \E page \in WatchPages : cap = [pc |-> "call", page |-> page, ret |-> CaptionResult("", "nil")]
  /\ tu = NoTwitterCall
  /\ sim = NoSimilarityCall
  /\ sched = NoScheduleCall
  /\ guestFile = NoFile
  /\ gcall = NoCall
  /\ epFile = NoEpisodeFile
  /\ ecall = NoCall
  /\ WriteAtRest
  /\ PipelineAtRest

\* bits, err := loadWatchPage(ctx, id).
CaptionLoad ==
  /\ cap.pc = "call"
  /\ cap' = IF cap.page.load # "ok"
            THEN [cap EXCEPT !.pc = "done", !.ret = CaptionResult("", "load")]
            ELSE [cap EXCEPT !.pc = "loaded"]
  /\ UNCHANGED <<tu, sim, sched, guestVars, episodeVars, writeVars, pipelineVars>>

\* The search for "captions": in the page.
CaptionFind ==
  /\ cap.pc = "loaded"
  /\ cap' = IF cap.page.captions = "absent"
            THEN IF cap.page.recaptcha
                 THEN [cap EXCEPT !.pc = "done",
                                  !.ret = CaptionResult("", "rate limit exceeded")]
                 ELSE IF ~cap.page.playability
                 THEN [cap EXCEPT !.pc = "done",
                                  !.ret = CaptionResult("", "video ID not found")]
                 ELSE [cap EXCEPT !.pc = "done", !.ret = CaptionResult("", "nil")]
            ELSE [cap EXCEPT !.pc = "found"]
  /\ UNCHANGED <<tu, sim, sched, guestVars, episodeVars, writeVars, pipelineVars>>

\* dec.Decode(&data).
CaptionDecode ==
  /\ cap.pc = "found"
  /\ cap' = IF cap.page.captions = "garbage"
            THEN [cap EXCEPT !.pc = "done", !.ret = CaptionResult("", "decode")]
            ELSE [cap EXCEPT !.pc = "decoded"]
  /\ UNCHANGED <<tu, sim, sched, guestVars, episodeVars, writeVars, pipelineVars>>

\* The rest of the function, from "if data.R == nil && len(data.R.C) == 0":
\* with data.R nil the second operand reads a field through a nil pointer;
\* with a renderer the condition is false, and without tracks data.R.C[0]
\* is out of range.
CaptionSelect ==
  /\ cap.pc = "decoded"
  /\ LET C == cap.page.tracks
         en == { k \in 1..Len(C) : C[k].Lang = "en" }
     IN  cap' = IF cap.page.captions = "no renderer"
                THEN [cap EXCEPT !.pc = "done", !.ret = CaptionPanic]
                ELSE IF en # {}
                THEN [cap EXCEPT !.pc = "done",
                        !.ret = CaptionResult(C[CHOOSE k \in en : \A j \in en : k <= j].URL,
                                              "nil")]
                ELSE IF Len(C) = 0
                THEN [cap EXCEPT !.pc = "done", !.ret = CaptionPanic]
                ELSE [cap EXCEPT !.pc = "done", !.ret = CaptionResult(C[1].URL, "nil")]
  /\ UNCHANGED <<tu, sim, sched, guestVars, episodeVars, writeVars, pipelineVars>>

NextCaption == CaptionLoad \/ CaptionFind \/ CaptionDecode \/ CaptionSelect

SpecCaption == InitCaption /\ [][NextCaption]_vars

\* The page of a video that exists and has no caption track.
NoCaptionTracks(page) ==
  /\ page.load = "ok"
  /\ \/ page.captions = "absent" /\ ~page.recaptcha /\ page.playability
     \/ page.captions = "no renderer"
     \/ page.captions = "renderer" /\ page.tracks = <<>>

\* C16: for a video that exists and has no caption tracks YouTubeCaptionURL
\* returns "" and a nil error; it returns no error and does not panic.
C16_NoCaptionsIsNoError ==
  (cap.pc = "done" /\ NoCaptionTracks(cap.page)) => cap.ret = CaptionResult("", "nil")

(***************************************************************************)
(* Similarity: one call on two texts.                                      *)
(***************************************************************************)
\* A text of words with one space between them.
RECURSIVE Spaced(_)
Spaced(ws) ==
  IF Len(ws) <= 1 THEN ws ELSE <<Head(ws), " ">> \o Spaced(Tail(ws))

\* The texts of TestSimilarity, and texts with capitals and punctuation.
Texts ==
  { <<>>, <<"xyz">>,
    Spaced(<<"a", "b", "c">>), Spaced(<<"d", "e", "f">>), Spaced(<<"c", "b", "a">>),
    Spaced(<<"b", "d", "f">>), Spaced(<<"a", "b">>), Spaced(<<"b", "c">>),
    Spaced(<<"you", "are", "everything", "that", "is", "wrong", "with", "the", "world">>),
    Spaced(<<"you", "are", "everything", "wrong">>),
    <<" ", "A", "\n", "B,", " ", "a">>,
    Spaced(<<"a", "-">>), Spaced(<<"-", "...">>), <<"a">> }

InitSimilarity ==
  /\ \E a \in Texts, b \in Texts : sim = [pc |-> "call", a |-> a, b |-> b, ret |-> <<0, 1>>]
  /\ tu = NoTwitterCall
  /\ cap = NoCaptionCall
  /\ sched = NoScheduleCall
  /\ guestFile = NoFile
  /\ gcall = NoCall
  /\ epFile = NoEpisodeFile
  /\ ecall = NoCall
  /\ WriteAtRest
  /\ PipelineAtRest

CallSimilarity ==
  /\ sim.pc = "call"
  /\ sim' = [sim EXCEPT !.pc = "done", !.ret = Similarity(sim.a, sim.b)]
  /\ UNCHANGED <<tu, cap, sched, guestVars, episodeVars, writeVars, pipelineVars>>

NextSimilarity == CallSimilarity

SpecSimilarity == InitSimilarity /\ [][NextSimilarity]_vars

\* The result r = <<num, den>> is the number p / q.
IsRatio(r, p, q) == q * q * r[1] * r[1] = p * p * r[2]

\* C18: Similarity(a, b) is the Otsuka-Ochiai coefficient of the sets A and B
\* of the words of a and b: 1 when both are empty, 0 when one is, else
\* |A \cap B| / sqrt(|A| * |B|); it is the same for (b, a), lies between 0
\* and 1, is 1 for two equal texts, and is 0, 1, 1/3 and 1/2 on the four
\* pairs of texts named.
C18_OtsukaOchiai ==
  sim.pc = "done" =>
    LET A == Range(Words(sim.a))
        B == Range(Words(sim.b))
        r == sim.ret
    IN  /\ (A = {} /\ B = {}) => IsRatio(r, 1, 1)
        /\ ((A = {}) # (B = {})) => IsRatio(r, 0, 1)
        /\ (A # {} /\ B # {})
             => r = <<Cardinality(A \cap B), Cardinality(A) * Cardinality(B)>>
        /\ r[2] > 0 /\ r[1] >= 0 /\ r[1] * r[1] <= r[2]
        /\ Similarity(sim.b, sim.a)[1] * Similarity(sim.b, sim.a)[1] * r[2]
             = r[1] * r[1] * Similarity(sim.b, sim.a)[2]
        /\ sim.a = sim.b => IsRatio(r, 1, 1)
        /\ (sim.a = Spaced(<<"a", "b", "c">>) /\ sim.b = Spaced(<<"d", "e", "f">>))
             => IsRatio(r, 0, 1)
        /\ (sim.a = Spaced(<<"a", "b", "c">>) /\ sim.b = Spaced(<<"c", "b", "a">>))
             => IsRatio(r, 1, 1)
        /\ (sim.a = Spaced(<<"a", "b", "c">>) /\ sim.b = Spaced(<<"b", "d", "f">>))
             => IsRatio(r, 1, 3)
        /\ (sim.a = Spaced(<<"a", "b">>) /\ sim.b = Spaced(<<"b", "c">>))
             => IsRatio(r, 1, 2)

\* Similarity was called on "a b c" and "b d f" and gave 1/3.
C18_Witness ==
  /\ sim.pc = "done"
  /\ sim.a = Spaced(<<"a", "b", "c">>)
  /\ sim.b = Spaced(<<"b", "d", "f">>)
  /\ sim.ret = <<1, 9>>

\* A text without its tokens that have no word character.
WithoutPunctTokens(s) == SelectSeq(s, LAMBDA t : t \in WhiteSpace \/ StripPunct(t) # "")

\* C19: a token of punctuation only counts as absent: Similarity gives the
\* same result when such tokens are taken out of either text.
C19_PunctuationTokensAbsent ==
  sim.pc = "done"
    => sim.ret = Similarity(WithoutPunctTokens(sim.a), WithoutPunctTokens(sim.b))

\* C24: the start time of a search request is never more than 7 days before
\* now, at whatever time of the day the call is made.
C24_SearchWithinWeek ==
  \A k \in 1..Len(tu.queries) : Hours(tu.now) - Hours(tu.queries[k]) <= WeekHours


\* The place of a post in the answer of the search, the newest post first.
PlaceOf(id) == CHOOSE k \in 1..Len(tu.Tweets) : tu.Tweets[k].ID = id

\* C26: the updates returned are the updates kept, each once, in the order
\* from the oldest post to the newest: the reverse of the order of the answer
\* of the search, whatever was dropped in between.
C26_OldestFirst ==
  Returned =>
    /\ Len(tu.ret) = Len(tu.ups)
    /\ Range(tu.ret) = Range(tu.ups)
    /\ \A i \in 1..Len(tu.ret) : \A j \in (i + 1)..Len(tu.ret) :
         /\ After(tu.ret[j].Date, tu.ret[i].Date)
         /\ PlaceOf(tu.ret[i].TweetID) > PlaceOf(tu.ret[j].TweetID)

\* Three posts were answered; the update of one was dropped, and the two
\* updates returned are in the order from the older post to the newer.
C26_Witness ==
  /\ Returned
  /\ Len(tu.Tweets) = 3
  /\ Len(tu.dropped) = 1
  /\ Len(tu.ret) = 2
  /\ tu.ret[1].TweetID = tu.Tweets[3].ID
  /\ tu.ret[2].TweetID \in {tu.Tweets[1].ID, tu.Tweets[2].ID}

\* The text has the word "tomorrow": one of its fields, without its
\* punctuation and in lower case, is that word.
SaysTomorrow(text) ==
  \E k \in 1..Len(text) :
    text[k] \notin WhiteSpace /\ ToLowerChars(StripPunctChars(text[k])) = "tomorrow"

\* C27: the date of every update made is the time of its post, and its air
\* date is that time, one day later and at the same hour exactly when the
\* text of the post has the word "tomorrow", in any letter case.
C27_AirDate ==
  \A up \in Made :
    \E k \in 1..Len(tu.Tweets) :
      LET tw == tu.Tweets[k]
      IN  /\ tw.ID = up.TweetID
          /\ up.Date = tw.CreatedAt
          /\ up.AirDate = IF SaysTomorrow(tw.Text)
                          THEN Time(tw.CreatedAt.day + 1, tw.CreatedAt.hour)
                          ELSE tw.CreatedAt

\* Updates were made from a post with "Tomorrow," and from a post with
\* "tomorrow's": the air date of the first is one day after the post, the
\* air date of the second is the time of the post.
C27_Witness ==
  /\ \E up \in Made : up.TweetID = "t1" /\ up.AirDate = Time(13, 23) /\ up.Date = Time(12, 23)
  /\ \E up \in Made : up.TweetID = "t6" /\ up.AirDate = up.Date

(***************************************************************************)
(* main after a pass: the start of the next show and the sleep.  Times are *)
(* minutes since the midnight (UTC) that begins a Sunday; the location of  *)
(* time.Now() is zone hours east of UTC.                                   *)
(***************************************************************************)
MaxRounds == 2     \* most sleeps of one run

minPollTime == 1   \* 1 * time.Minute
maxPollTime == 90  \* 90 * time.Minute
Friday == 5        \* time.Friday; time.Sunday is 0

Minutes(day, hour, minute) == (day * 24 + hour) * 60 + minute

\* time.Date(year, month, day, hour, 0, 0, 0, time.UTC).
timeDate(day, hour) == Minutes(day, hour, 0)

\* The wall clock of a time in the location zone hours east of UTC, and
\* its day (Year, Month, Day), its Weekday and the hour of now.UTC().
In(t, zone) == t + zone * 60
DayOf(t) == t \div (24 * 60)
Weekday(t) == DayOf(t) % 7
UTCHour(t) == (t \div 60) % 24

\* nextStartAfter.
nextStartAfter(now, zone, hour) ==
  LET Start(d) ==
        timeDate(DayOf(In(now, zone))
                   + (IF d >= Friday THEN 8 - d ELSE IF d % 2 = 1 THEN 2 ELSE 1),
                 hour)
  IN  Start(Weekday(In(now, zone)))

\* todayStart.
todayStart(now, zone, hour) ==
  IF ~(Weekday(In(now, zone)) % 2 = 1) \/ UTCHour(now) > hour + 1
  THEN nextStartAfter(now, zone, hour)
  ELSE timeDate(DayOf(In(now, zone)), hour)

\* isSameOrLaterDate, on days: the dates as Format("20060102") writes them.
isSameOrLaterDate(now, then) == now >= then

\* isPastShowTime, with the value of time.Now().
isPastShowTime(showTime, timeNow) == timeNow > showTime + 60

\* Division of time.Duration values: the quotient is cut toward zero.
Quot(a, b) == IF a >= 0 THEN a \div b ELSE 0 - ((0 - a) \div b)

\* A variant of the sleep without the lower limit.
pollWaitNoFloor(diff) ==
  LET Limited(wait) == IF wait > maxPollTime THEN maxPollTime ELSE wait
  IN  Limited(Quot(diff, 7))

\* main: wait := diff / 7, held between minPollTime and maxPollTime.
pollWait(diff) ==
  LET Limited(wait) ==
        IF wait > maxPollTime THEN maxPollTime
        ELSE IF wait < minPollTime THEN minPollTime
        ELSE wait
  IN  Limited(Quot(diff, 7))

Zones == {-7, 0, 9}
ShowStartHours == {21, 22}
ScheduleNows ==
  { Minutes(d, h, m) : d \in 7..13, h \in {0, 12, 20, 21, 22, 23}, m \in {0, 30} }

InitSchedule ==
  /\ \E now \in ScheduleNows, zone \in Zones, hour \in ShowStartHours, back \in {0, 1} :
       sched = [pc |-> "pass", now |-> now, zone |-> zone, showStartHour |-> hour,
                latestDate |-> DayOf(In(now, zone)) - back,
                start |-> 0, diff |-> 0, wait |-> 0, rounds |-> 0]
  /\ tu = NoTwitterCall
  /\ sim = NoSimilarityCall
  /\ cap = NoCaptionCall
  /\ guestFile = NoFile
  /\ gcall = NoCall
  /\ epFile = NoEpisodeFile
  /\ ecall = NoCall
  /\ WriteAtRest
  /\ PipelineAtRest

\* main: start := todayStart(now).
ScheduleToday ==
  /\ sched.pc = "pass"
  /\ sched' = [sched EXCEPT !.pc = "today",
                            !.start = todayStart(sched.now, sched.zone, sched.showStartHour)]
  /\ UNCHANGED <<tu, sim, cap, guestVars, episodeVars, writeVars, pipelineVars>>

\* main: the next start is taken when the latest episode is of today or
\* later, or the start of today is more than an hour ago.
ScheduleTarget ==
  /\ sched.pc = "today"
  /\ sched' = [sched EXCEPT
       !.pc = "target",
       !.start = IF \/ isSameOrLaterDate(sched.latestDate, DayOf(In(sched.now, sched.zone)))
                    \/ isPastShowTime(sched.start, sched.now)
                 THEN nextStartAfter(sched.now, sched.zone, sched.showStartHour)
                 ELSE @]
  /\ UNCHANGED <<tu, sim, cap, guestVars, episodeVars, writeVars, pipelineVars>>

\* main: diff and wait.
ScheduleWait ==
  /\ sched.pc = "target"
  /\ sched' = [sched EXCEPT !.pc = "sleep",
                            !.diff = sched.start - sched.now,
                            !.wait = pollWait(sched.start - sched.now)]
  /\ UNCHANGED <<tu, sim, cap, guestVars, episodeVars, writeVars, pipelineVars>>

\* main: time.Sleep(wait) and the next pass, which finds no new episode or
\* an episode of the day.
ScheduleSleep ==
  /\ sched.pc = "sleep"
  /\ sched.rounds < MaxRounds
  /\ \E found \in BOOLEAN :
       sched' = [sched EXCEPT
         !.pc = "pass",
         !.now = @ + sched.wait,
         !.rounds = @ + 1,
         !.latestDate = IF found /\ DayOf(In(sched.now + sched.wait, sched.zone)) > @
                        THEN DayOf(In(sched.now + sched.wait, sched.zone))
                        ELSE @]
  /\ UNCHANGED <<tu, sim, cap, guestVars, episodeVars, writeVars, pipelineVars>>

NextSchedule == ScheduleToday \/ ScheduleTarget \/ ScheduleWait \/ ScheduleSleep

SpecSchedule == InitSchedule /\ [][NextSchedule]_vars

\* The starts of the shows: Monday, Wednesday and Friday at the start hour.
ShowStarts(hour) == { timeDate(d, hour) : d \in { e \in 0..27 : e % 7 \in {1, 3, 5} } }

Targeted == sched.pc \in {"target", "sleep"}

\* C22: the start that main targets is the start of a show on a Monday, a
\* Wednesday or a Friday, it is later than now, and no show starts between
\* now and it; from Friday after the show, on Saturday and on Sunday it is
\* on a Monday.
C22_NearestFutureStart ==
  Targeted =>
    /\ sched.start \in ShowStarts(sched.showStartHour)
    /\ sched.start > sched.now
    /\ \A s \in ShowStarts(sched.showStartHour) : ~(sched.now < s /\ s < sched.start)
    /\ (\/ Weekday(sched.now) \in {6, 0}
        \/ /\ Weekday(sched.now) = Friday
           /\ sched.now > timeDate(DayOf(sched.now), sched.showStartHour) + 60)
         => Weekday(sched.start) = 1

\* C23: the sleep is at least one minute and at most 90 minutes.
C23_SleepBounds ==
  sched.pc = "sleep" => (minPollTime <= sched.wait /\ sched.wait <= maxPollTime)

\* The start targeted is in the past, and the sleep is one minute.
C23_Witness ==
  /\ sched.pc = "sleep"
  /\ sched.start < sched.now
  /\ sched.diff < 0
  /\ sched.wait = minPollTime
(***************************************************************************)
(* The pipeline again: the numbers and the files of the episodes over the  *)
(* passes and the runs of the process.                                     *)
(***************************************************************************)
\* C21: the updates of a pass are in the order of their air dates, and of
\* two episode numbers given in one pass the later one never goes to an
\* earlier air date.
C21_NumbersFollowAirDates ==
  /\ \A j, k \in 1..Len(updates) :
       j < k => ~After(updates[j].AirDate, updates[k].AirDate)
  /\ \A j, k \in 1..Len(editPaths) :
       (j < k /\ editPaths[j] # GuestFilePath /\ editPaths[k] # GuestFilePath)
         => editPaths[j][1] <= editPaths[k][1]

\* The episode number an episode file carries.
EpisodeOf(path) == yamlField(epDir[path].front, "episode", "")

\* C28: without -force, no two episode files carry the same episode number,
\* whatever passes were made.
C28_NumbersUnique ==
  ~flags.force
    => \A p, q \in Paths :
         (p # q /\ fileExists(p) /\ fileExists(q)) => EpisodeOf(p) # EpisodeOf(q)

(***************************************************************************)
(* Runs of the process one after the other, each of one pass (no -poll, no *)
(* -poll-one) and without -force, -dry-run and -edit: a process that has   *)
(* ended is started again with the same flags on the files the runs before *)
(* have left.                                                              *)
(***************************************************************************)
InitRuns ==
  /\ Init
  /\ OneShot
  /\ ~flags.force
  /\ ~flags.dryRun
  /\ ~flags.edit

\* epdate is started again.
Restart ==
  /\ pc \in {"done", "failed"}
  /\ pc' = "polling"
  /\ exitStatus' = -1
  /\ didUpdate' = FALSE
  /\ passes' = 0
  /\ latest' = NoLatest
  /\ updates' = <<>>
  /\ idx' = 1
  /\ numValid' = 0
  /\ editPaths' = <<>>
  /\ guestsDirty' = FALSE
  /\ written' = {}
  /\ upstream' = "none"
  /\ UNCHANGED <<flags, epDir, guestFile, gcall, episodeVars, writeVars, functionVars>>

NextRuns == StartPass \/ ProcessUpdate \/ EndPass \/ Restart

\* A pass finds the post of update u.
Finds(u) == StartPass /\ pc' = "updates" /\ u \in Range(updates')

\* A round of the loop over the updates, as pc and idx show it: it goes on
\* to the next update or ends the process.
LoopRound ==
  /\ pc = "updates"
  /\ idx <= Len(updates)
  /\ \/ idx' = idx + 1 /\ pc' = pc
     \/ idx' = idx /\ pc' = "failed"

\* The process goes on while it can: a pass is started, every round of its
\* loop is made and the pass is ended; a process that has ended is started
\* again; and every post is found again and again.
SpecRuns ==
  /\ InitRuns
  /\ [][NextRuns]_vars
  /\ WF_vars(StartPass)
  /\ WF_<<pc, idx>>(LoopRound)
  /\ WF_vars(EndPass)
  /\ WF_vars(Restart)
  /\ \A u \in PipelineUpdates : SF_vars(Finds(u))

\* The episode file at the path was written for update u: it has the stream
\* links of u.
CreatedFor(u, path) ==
  /\ fileExists(path)
  /\ epDir[path].kind = "episode"
  /\ yamlField(epDir[path].front, "crowdcast", "") = u.Crowdcast
  /\ yamlField(epDir[path].front, "youtube", "") = u.YouTube

\* A guest of u has no record that lists the episode of the file.
Unmerged(u, path) ==
  /\ CreatedFor(u, path)
  /\ \E j \in 1..Len(u.Guests) :
       \A k \in 1..Len(Entries(guestFile)) :
         ~(/\ isSameGuest(Entries(guestFile)[k], u.Guests[j])
           /\ OnEpisode(Entries(guestFile)[k], Number(EpisodeOf(path))))

SomeUnmerged == \E u \in PipelineUpdates, path \in Paths : Unmerged(u, path)

\* C29: when an episode file was written and the guests of its update are
\* not recorded for it, a later pass records them: from then on, at some
\* time, every episode file has its guests recorded.
C29_GuestsRecordedLater == SomeUnmerged ~> ~SomeUnmerged
====
